---- MODULE Spec2Model ----
(***************************************************************************)
(* Administrative-code ("ubigeo") normalisation, governance-level          *)
(* resolution and boundary lookup of the PI2026 scripts.                   *)
(*                                                                         *)
(* Python strings are modelled as sequences of one-character strings, so   *)
(* that strip/endswith/isdigit/zfill/slicing are computed and not assumed. *)
(***************************************************************************)
EXTENDS Integers, Sequences, FiniteSets, TLC

(***************************************************************************)
(* Characters and Python string primitives                                 *)
(***************************************************************************)

\* the empty cell: Python None, or the NaN pandas reads for it (pd.isna);
\* never equal to a string.
None == <<"<None>">>

\* U+0663 ARABIC-INDIC DIGIT THREE: str.isdigit() is True, not ASCII.
ArabicThree == "u0663"

AsciiDigits == {"0", "1", "2", "3", "4", "5", "6", "7", "8", "9"}

UnicodeDigits == {ArabicThree}

Whitespace == {" "}

\* str.isdigit() of one character
IsDigit(ch) == ch \in AsciiDigits \cup UnicodeDigits

\* str.strip(): leading whitespace removed
RECURSIVE LStrip(_)
LStrip(s) ==
    IF s # <<>> /\ Head(s) \in Whitespace THEN LStrip(Tail(s)) ELSE s

\* str.strip(): trailing whitespace removed
RECURSIVE RStrip(_)
RStrip(s) ==
    IF s # <<>> /\ s[Len(s)] \in Whitespace
    THEN RStrip(SubSeq(s, 1, Len(s) - 1))
    ELSE s

Strip(s) == RStrip(LStrip(s))

\* s.endswith(suffix)
EndsWith(s, suffix) ==
    /\ Len(s) >= Len(suffix)
    /\ SubSeq(s, Len(s) - Len(suffix) + 1, Len(s)) = suffix

\* s.startswith(prefix)
StartsWith(s, prefix) ==
    /\ Len(s) >= Len(prefix)
    /\ SubSeq(s, 1, Len(prefix)) = prefix

\* needle in s (substring test)
Contains(s, needle) ==
    \E i \in 0..(Len(s) - Len(needle)) :
        SubSeq(s, i + 1, i + Len(needle)) = needle

\* "".join(ch for ch in s if ch.isdigit())
OnlyDigits(s) == SelectSeq(s, IsDigit)

\* s.zfill(width) of a string without sign
RECURSIVE ZFill(_, _)
ZFill(s, width) ==
    IF Len(s) >= width THEN s ELSE ZFill(<<"0">> \o s, width)

\* s[:n]
Prefix(s, n) == SubSeq(s, 1, IF Len(s) < n THEN Len(s) ELSE n)

(***************************************************************************)
(* CodeNormalizer: the to_ubigeo6 of each script                           *)
(***************************************************************************)

\* width of an administrative code: department(2)+province(2)+district(2)
UbigeoLen == 6

\* plausible slip: endswith("0") instead of endswith(".0")
to_ubigeo6_strip0(x) ==
    IF x = None THEN None
    ELSE LET s0 == Strip(x)
             s1 == IF EndsWith(s0, <<"0">>)
                   THEN SubSeq(s0, 1, Len(s0) - 2) ELSE s0
             s2 == OnlyDigits(s1)
         IN IF s2 = <<>> THEN None ELSE Prefix(ZFill(s2, UbigeoLen), UbigeoLen)

\* maps_establecimientos / maps_intersecciones / mix_ubigeo_geojson /
\* municipalidades_build / process_colegios / split_excels_por_muni
to_ubigeo6(x) ==
    IF x = None THEN None
    ELSE LET s0 == Strip(x)
             s1 == IF EndsWith(s0, <<".", "0">>)
                   THEN SubSeq(s0, 1, Len(s0) - 2) ELSE s0
             s2 == OnlyDigits(s1)
         IN IF s2 = <<>> THEN None ELSE Prefix(ZFill(s2, UbigeoLen), UbigeoLen)

\* split_intersecciones_to_excels / split_establecimientos_to_excels:
\* no ".0" stripping
to_ubigeo6_split(x) ==
    IF x = None THEN None
    ELSE LET s2 == OnlyDigits(Strip(x))
         IN IF s2 = <<>> THEN None ELSE Prefix(ZFill(s2, UbigeoLen), UbigeoLen)

\* the scripts that define a code normaliser
Scripts ==
    {"maps_establecimientos", "maps_intersecciones", "mix_ubigeo_geojson",
     "municipalidades_build", "process_colegios", "split_excels_por_muni",
     "split_intersecciones_to_excels", "split_establecimientos_to_excels"}

SplitScripts ==
    {"split_intersecciones_to_excels", "split_establecimientos_to_excels"}

\* the normaliser a script runs
ToUbigeo6In(script, x) ==
    IF script \in SplitScripts THEN to_ubigeo6_split(x) ELSE to_ubigeo6(x)

(***************************************************************************)
(* Raw inputs of the normaliser                                            *)
(***************************************************************************)

\* longest raw body drawn (7 digits are needed to see the truncation)
MaxLen == 7

BodyChars == {"0", "1", ".", ArabicThree}

Bodies == UNION {[1..n -> BodyChars] : n \in 0..MaxLen}

Pads == {<<>>, <<" ">>}

\* str(x) of the cell values: optional surrounding blanks around a body
RawInputs == {pre \o b \o post : pre \in Pads, b \in Bodies, post \in Pads}

(***************************************************************************)
(* GovernanceLevelResolver: norm and compute_gestor of the ingestion       *)
(* scripts                                                                 *)
(***************************************************************************)

\* accented letters are written letter + "^" (acute) or "~" (tilde)
LowerLetters ==
    <<"a", "b", "c", "d", "e", "f", "g", "h", "i", "j", "k", "l", "m",
      "n", "o", "p", "q", "r", "s", "t", "u", "v", "w", "x", "y", "z",
      "a^", "e^", "i^", "o^", "u^", "n~">>

UpperLetters ==
    <<"A", "B", "C", "D", "E", "F", "G", "H", "I", "J", "K", "L", "M",
      "N", "O", "P", "Q", "R", "S", "T", "U", "V", "W", "X", "Y", "Z",
      "A^", "E^", "I^", "O^", "U^", "N~">>

\* str.lower() of one character
LowerChar(ch) ==
    IF \E i \in DOMAIN UpperLetters : UpperLetters[i] = ch
    THEN LowerLetters[CHOOSE i \in DOMAIN UpperLetters : UpperLetters[i] = ch]
    ELSE ch

\* str.upper() of one character
UpperChar(ch) ==
    IF \E i \in DOMAIN LowerLetters : LowerLetters[i] = ch
    THEN UpperLetters[CHOOSE i \in DOMAIN LowerLetters : LowerLetters[i] = ch]
    ELSE ch

Lower(s) == [i \in DOMAIN s |-> LowerChar(s[i])]

Upper(s) == [i \in DOMAIN s |-> UpperChar(s[i])]

\* the chain of .replace("á","a")...replace("ñ","n") on one character
Unaccent(ch) ==
    CASE ch = "a^" -> "a"
      [] ch = "e^" -> "e"
      [] ch = "i^" -> "i"
      [] ch = "o^" -> "o"
      [] ch = "u^" -> "u"
      [] ch = "n~" -> "n"
      [] OTHER -> ch

\* str(s or "") and astype(str): the empty cell (NaN, truthy) reads "nan",
\* "" stays "", any other string is itself
StrOrEmpty(s) == IF s = None THEN <<"n", "a", "n">> ELSE s

\* norm(s): strip, lowercase, replace accented vowels and n-tilde
norm(s) ==
    LET t == Lower(Strip(StrOrEmpty(s)))
    IN [i \in DOMAIN t |-> Unaccent(t[i])]

\* the tokens of the "provincial" heuristic
ProvTokens ==
    {<<"p", "r", "o", "v", "i", "n", "c", "i", "a", "l">>,
     <<"p", "r", "o", "v", "i", "n", "c", "i", "a">>,
     <<"p", "r", "o", "v", "i", "n", "c">>,
     <<"p", "r", "o", "v">>}

\* u[:4] + "01"
ProvinceCodeOf(u) == Prefix(u, 4) \o <<"0", "1">>

\* plausible slip: the province suffix is appended to the whole code
compute_gestor_append(ubigeo, competencia_text) ==
    LET u == to_ubigeo6_split(ubigeo)
        c == norm(competencia_text)
    IN IF u = None THEN None
       ELSE IF \E k \in ProvTokens : Contains(c, k)
            THEN Prefix(u \o <<"0", "1">>, UbigeoLen)
            ELSE u

\* compute_gestor of split_intersecciones_to_excels and
\* split_establecimientos_to_excels
compute_gestor(ubigeo, competencia_text) ==
    LET u == to_ubigeo6_split(ubigeo)
        c == norm(competencia_text)
    IN IF u = None THEN None
       ELSE IF \E k \in ProvTokens : Contains(c, k)
            THEN ProvinceCodeOf(u)
            ELSE u

\* transform.compute_gestor of process_colegios, on the columns
\* ubigeo_original = to_ubigeo6(ubigeo), competencia_via = astype(str).map(norm)
compute_gestor_colegios(ubigeo, competencia_text) ==
    LET u == to_ubigeo6(ubigeo)
        cv == norm(competencia_text)
    IN IF u = None THEN None
       ELSE IF StartsWith(cv, <<"p", "r", "o", "v", "i", "n", "c">>)
            THEN ProvinceCodeOf(u)
            ELSE u

\* the ingestion pipelines: schools, intersections, health facilities
Pipelines ==
    {"process_colegios", "split_intersecciones_to_excels",
     "split_establecimientos_to_excels"}

\* the governing code a pipeline writes to ubigeo_gestor
GestorIn(pipeline, ubigeo, competencia_text) ==
    IF pipeline = "process_colegios"
    THEN compute_gestor_colegios(ubigeo, competencia_text)
    ELSE compute_gestor(ubigeo, competencia_text)

(***************************************************************************)
(* Rows of the ingestion inputs                                            *)
(***************************************************************************)

Capitalize(s) == IF s = <<>> THEN s ELSE <<UpperChar(Head(s))>> \o Tail(s)

LabelStems ==
    {<<"p", "r", "o", "v", "i", "n", "c", "i", "a", "l">>,
     <<"p", "r", "o", "v", "i^", "n", "c", "i", "a", "l">>,
     <<"p", "r", "o", "v", "i", "n", "c", "i", "a">>,
     <<"p", "r", "o", "v", "i", "n", "c">>,
     <<"p", "r", "o", "v">>,
     <<"p", "r", "o">>,
     <<"d", "i", "s", "t", "r", "i", "t", "a", "l">>}

LabelPrefixes == {<<>>, <<"v", "i^", "a", " ">>}

LabelSuffixes == {<<>>, <<".">>}

\* free-text competence labels: casing, accents, padding, leading words
Labels ==
    {<<>>} \cup
    {pad \o pre \o w \o suf :
        pad \in Pads, pre \in LabelPrefixes, suf \in LabelSuffixes,
        w \in UNION {{st, Upper(st), Capitalize(st)} : st \in LabelStems}}

\* ubigeo cells of the ingestion inputs
UbigeoCells ==
    {None,
     <<>>,
     <<"0", "6", "0", "1", "0", "2">>,
     <<"0", "6", "0", "1", "0", "1">>,
     <<"6", "0", "1", "0", "2">>,
     <<"6", "0", "1", "0", "2", ".", "0">>,
     <<"1", "5", "-", "0", "1", "-", "3", "2">>,
     <<"1", "5", "0", "1", "3", "2", "7">>}

(***************************************************************************)
(* BoundaryIndex: features, property bags and the lookups of the map       *)
(* scripts                                                                 *)
(***************************************************************************)

K_IDDIST == <<"I", "D", "D", "I", "S", "T">>

K_IDPROV == <<"I", "D", "P", "R", "O", "V">>

K_UBIGEO == <<"U", "B", "I", "G", "E", "O">>

K_CodUbigeo == <<"C", "o", "d", "U", "b", "i", "g", "e", "o">>

\* the literal "ubigeo" searched in lowercased property names
UbigeoWord == <<"u", "b", "i", "g", "e", "o">>

\* props.get(key): a property bag is a sequence of <<key, value>> pairs
\* in the order of the JSON object
PropsGet(props, key) ==
    IF \E i \in DOMAIN props : props[i][1] = key
    THEN props[CHOOSE i \in DOMAIN props : props[i][1] = key][2]
    ELSE None

\* concatenation of a list of lists, in order
RECURSIVE Flatten(_)
Flatten(lists) ==
    IF lists = <<>> THEN <<>> ELSE Head(lists) \o Flatten(Tail(lists))

\* features_distrito_por_ubigeo: every feature whose normalised IDDIST is
\* the target, in file order
features_distrito_por_ubigeo(distritos_gj_, target_ubi6) ==
    LET Match(feat) ==
            to_ubigeo6(PropsGet(feat.properties, K_IDDIST)) = target_ubi6
    IN SelectSeq(distritos_gj_, Match)

\* digits of IDPROV, zfill(4)[:4]
Idprov4(idprov) == Prefix(ZFill(OnlyDigits(idprov), 4), 4)

\* some property named *ubigeo* normalises to the target
MatchesByUbigeo(feat, target_ubi6) ==
    \E i \in DOMAIN feat.properties :
        /\ Contains(Lower(feat.properties[i][1]), UbigeoWord)
        /\ to_ubigeo6(feat.properties[i][2]) = target_ubi6

\* the IDPROV fallback of features_provincia_por_ubigeo
MatchesByIdprov(feat, target_ubi6) ==
    LET target4 == IF target_ubi6 # None THEN Prefix(target_ubi6, 4) ELSE None
        idprov == PropsGet(feat.properties, K_IDPROV)
    IN /\ idprov # None
       /\ target4 # None
       /\ Idprov4(idprov) = target4

\* features_provincia_por_ubigeo: over the files in order, every feature
\* matched by a *ubigeo* property, or else by its IDPROV
features_provincia_por_ubigeo(prov_gj_list, target_ubi6) ==
    LET Match(feat) ==
            \/ MatchesByUbigeo(feat, target_ubi6)
            \/ MatchesByIdprov(feat, target_ubi6)
    IN SelectSeq(Flatten(prov_gj_list), Match)

\* plausible slip: a miss in the province source falls back to districts
ResolveBoundary_retry(target_ubi_, distritos_gj_, provincias_gj_list_) ==
    IF target_ubi_ = None
    THEN [feats |-> <<>>, consulted |-> {}]
    ELSE IF EndsWith(target_ubi_, <<"0", "1">>)
         THEN LET fp == features_provincia_por_ubigeo(provincias_gj_list_,
                                                      target_ubi_)
              IN IF fp # <<>>
                 THEN [feats |-> fp, consulted |-> {"provincias"}]
                 ELSE [feats |-> features_distrito_por_ubigeo(distritos_gj_,
                                                              target_ubi_),
                       consulted |-> {"provincias", "distritos"}]
         ELSE [feats |-> features_distrito_por_ubigeo(distritos_gj_,
                                                      target_ubi_),
               consulted |-> {"distritos"}]

\* plausible slip: the lookup is not guarded by "if target_ubi"
ResolveBoundary_unguarded(target_ubi_, distritos_gj_, provincias_gj_list_) ==
    IF EndsWith(target_ubi_, <<"0", "1">>)
    THEN [feats |-> features_provincia_por_ubigeo(provincias_gj_list_,
                                                  target_ubi_),
          consulted |-> {"provincias"}]
    ELSE [feats |-> features_distrito_por_ubigeo(distritos_gj_, target_ubi_),
          consulted |-> {"distritos"}]

\* map_for_excel: the boundary source is chosen by the suffix of the
\* governing code; consulted records the sources that were searched
ResolveBoundary(target_ubi_, distritos_gj_, provincias_gj_list_) ==
    IF target_ubi_ = None
    THEN [feats |-> <<>>, consulted |-> {}]
    ELSE IF EndsWith(target_ubi_, <<"0", "1">>)
         THEN [feats |-> features_provincia_por_ubigeo(provincias_gj_list_,
                                                       target_ubi_),
               consulted |-> {"provincias"}]
         ELSE [feats |-> features_distrito_por_ubigeo(distritos_gj_,
                                                      target_ubi_),
               consulted |-> {"distritos"}]

(***************************************************************************)
(* PointInPolygonEngine. Coordinates are integers; a point is <<lon, lat>>.*)
(* x_inter > lon is decided exactly by cross-multiplication. When the      *)
(* exact intersection is at lon itself (the point is on the edge) the      *)
(* 1e-15 added to the denominator moves x_inter either nowhere or east,    *)
(* and in the second case the float result depends on rounding: tie is     *)
(* that outcome.                                                           *)
(***************************************************************************)

EdgeCrosses(lon, lat, p1, p2, tie) ==
    LET x1 == p1[1]
        y1 == p1[2]
        x2 == p2[1]
        y2 == p2[2]
        d == y2 - y1
        n == (x2 - x1) * (lat - y1)
        l == lon - x1
    IN /\ (y1 > lat) # (y2 > lat)
       /\ IF n = l * d
          THEN tie /\ ((d > 0 /\ l < 0) \/ (d < 0 /\ l > 0))
          ELSE IF d > 0 THEN n > l * d ELSE n < l * d

\* plausible slip: range(n - 1), the closing edge is not visited
point_in_ring_open(lon, lat, ring, tie) ==
    LET n == Len(ring)
        crossings == {i \in 1..(n - 1) :
                         EdgeCrosses(lon, lat, ring[i], ring[i + 1], tie)}
    IN ring # <<>> /\ Cardinality(crossings) % 2 = 1

\* plausible slip: inside = True instead of inside = not inside
point_in_ring_any(lon, lat, ring, tie) ==
    LET n == Len(ring)
    IN \E i \in 1..n :
          EdgeCrosses(lon, lat, ring[i], ring[(i % n) + 1], tie)

\* _point_in_ring: inside toggles once per crossed edge i -> (i + 1) % n
point_in_ring(lon, lat, ring, tie) ==
    LET n == Len(ring)
        crossings == {i \in 1..n :
                         EdgeCrosses(lon, lat, ring[i], ring[(i % n) + 1], tie)}
    IN ring # <<>> /\ Cardinality(crossings) % 2 = 1

\* plausible slip: the hole rings are not looked at
point_in_polygon_exterior(lon, lat, polygon_coords, tie) ==
    /\ polygon_coords # <<>>
    /\ point_in_ring(lon, lat, polygon_coords[1], tie)

\* point_in_polygon: inside the exterior ring and inside no hole
point_in_polygon(lon, lat, polygon_coords, tie) ==
    /\ polygon_coords # <<>>
    /\ point_in_ring(lon, lat, polygon_coords[1], tie)
    /\ \A h \in 2..Len(polygon_coords) :
          ~point_in_ring(lon, lat, polygon_coords[h], tie)

\* feat.get("geometry") or {}: a feature without geometry
NoGeometry == [type |-> "None", coordinates |-> <<>>]

\* plausible slip: only the first polygon of a MultiPolygon is tested
point_in_features_first(lon, lat, feats_, tie) ==
    \E i \in DOMAIN feats_ :
        LET geom == feats_[i].geometry
        IN /\ geom.coordinates # <<>>
           /\ \/ /\ geom.type = "Polygon"
                 /\ point_in_polygon(lon, lat, geom.coordinates, tie)
              \/ /\ geom.type = "MultiPolygon"
                 /\ point_in_polygon(lon, lat, geom.coordinates[1], tie)

\* plausible slip: a feature without coordinates ends the scan (return
\* instead of continue)
point_in_features_stop(lon, lat, feats_, tie) ==
    \E i \in DOMAIN feats_ :
        LET geom == feats_[i].geometry
        IN /\ \A j \in 1..i : feats_[j].geometry.coordinates # <<>>
           /\ \/ /\ geom.type = "Polygon"
                 /\ point_in_polygon(lon, lat, geom.coordinates, tie)
              \/ /\ geom.type = "MultiPolygon"
                 /\ \E k \in DOMAIN geom.coordinates :
                       point_in_polygon(lon, lat, geom.coordinates[k], tie)

\* point_in_features: some Polygon or MultiPolygon feature contains the
\* point; features without coordinates or of another type are passed over
point_in_features(lon, lat, feats_, tie) ==
    \E i \in DOMAIN feats_ :
        LET geom == feats_[i].geometry
        IN /\ geom.coordinates # <<>>
           /\ \/ /\ geom.type = "Polygon"
                 /\ point_in_polygon(lon, lat, geom.coordinates, tie)
              \/ /\ geom.type = "MultiPolygon"
                 /\ \E k \in DOMAIN geom.coordinates :
                       point_in_polygon(lon, lat, geom.coordinates[k], tie)

\* the incident loop of map_for_excel: the rows inside the boundary, in
\* order; nothing is tested when there is no boundary
FilterIncidents(siniestros_df_, feats_, tie) ==
    LET Inside(pt) == point_in_features(pt[1], pt[2], feats_, tie)
    IN IF feats_ = <<>> THEN <<>> ELSE SelectSeq(siniestros_df_, Inside)

\* plausible slip: the marker is put in front of the layer
KeepIfInside_front(kept_, pt, feats_, tie) ==
    IF point_in_features(pt[1], pt[2], feats_, tie)
    THEN <<pt>> \o kept_ ELSE kept_

\* one pass of the incident loop: the row's marker is added to the layer
\* when the boundary contains the row's point
KeepIfInside(kept_, pt, feats_, tie) ==
    IF point_in_features(pt[1], pt[2], feats_, tie)
    THEN Append(kept_, pt) ELSE kept_

(***************************************************************************)
(* mix_ubigeo_geojson: indexes by code, merge of the province files        *)
(***************************************************************************)

\* pick_ubigeo_key: the first property name containing "ubigeo"
pick_ubigeo_key(props) ==
    LET hits == {i \in DOMAIN props :
                    Contains(Strip(Lower(props[i][1])), UbigeoWord)}
    IN IF hits = {} THEN None
       ELSE props[CHOOSE i \in hits : \A j \in hits : i <= j][1]

\* idx[k] = v on a dict held as a function
DictPut(idx, k, v) ==
    [x \in (DOMAIN idx) \cup {k} |-> IF x = k THEN v ELSE idx[x]]

EmptyDict == [x \in {} |-> None]

\* build_index_by_ubigeo: code -> feature of one FeatureCollection; a later
\* feature with the same code overwrites
RECURSIVE BuildIndexFrom(_, _)
BuildIndexFrom(features, idx) ==
    IF features = <<>> THEN idx
    ELSE LET feat == Head(features)
             key == pick_ubigeo_key(feat.properties)
             u6 == IF key = None THEN None
                   ELSE to_ubigeo6(PropsGet(feat.properties, key))
         IN BuildIndexFrom(Tail(features),
                           IF u6 = None THEN idx ELSE DictPut(idx, u6, feat))

build_index_by_ubigeo(features) == BuildIndexFrom(features, EmptyDict)

\* plausible slip: setdefault, the first file's entry is kept
RECURSIVE MergeFromKeepFirst(_, _, _)
MergeFromKeepFirst(index_list, merged, dups) ==
    IF index_list = <<>> THEN [merged |-> merged, dups |-> dups]
    ELSE LET idx == Head(index_list)
         IN MergeFromKeepFirst(
                Tail(index_list),
                [u6 \in (DOMAIN merged) \cup (DOMAIN idx) |->
                    IF u6 \in DOMAIN merged THEN merged[u6] ELSE idx[u6]],
                dups \cup ((DOMAIN idx) \cap (DOMAIN merged)))

merge_indexes_keep_first(index_list) ==
    MergeFromKeepFirst(index_list, EmptyDict, {})

\* the loop of merge_indexes over the files; the keys of one index are
\* distinct, so a whole index is folded in at once
RECURSIVE MergeFrom(_, _, _)
MergeFrom(index_list, merged, dups) ==
    IF index_list = <<>> THEN [merged |-> merged, dups |-> dups]
    ELSE LET idx == Head(index_list)
         IN MergeFrom(
                Tail(index_list),
                [u6 \in (DOMAIN merged) \cup (DOMAIN idx) |->
                    IF u6 \in DOMAIN idx THEN idx[u6] ELSE merged[u6]],
                dups \cup ((DOMAIN idx) \cap (DOMAIN merged)))

\* merge_indexes: the merged index and the set of duplicated codes whose
\* size is reported
merge_indexes(index_list) == MergeFrom(index_list, EmptyDict, {})

\* rank of a character in string comparison (digits first, in order)
DigitOrder == <<"0", "1", "2", "3", "4", "5", "6", "7", "8", "9">>

CharRank(ch) ==
    IF \E i \in DOMAIN DigitOrder : DigitOrder[i] = ch
    THEN CHOOSE i \in DOMAIN DigitOrder : DigitOrder[i] = ch
    ELSE Len(DigitOrder) + 1

\* a < b for Python strings
RECURSIVE StrLess(_, _)
StrLess(a, b) ==
    IF b = <<>> THEN FALSE
    ELSE IF a = <<>> THEN TRUE
    ELSE IF Head(a) = Head(b) THEN StrLess(Tail(a), Tail(b))
    ELSE CharRank(Head(a)) < CharRank(Head(b))

\* sorted(set of strings)
RECURSIVE Sorted(_)
Sorted(S) ==
    IF S = {} THEN <<>>
    ELSE LET m == CHOOSE x \in S : \A y \in S \ {x} : StrLess(x, y)
         IN <<m>> \o Sorted(S \ {m})

\* idx.get(u6) that found nothing
NoFeature == [name |-> <<"none", 0>>, properties |-> <<>>, geometry |-> NoGeometry]

\* plausible slip: no "continue" after a miss, the entry is written anyway
MixEntry_written(u6, idx_dist_, idx_prov_) ==
    IF EndsWith(u6, <<"0", "1">>)
    THEN [ubigeo |-> u6, source |-> "provincias", found |-> TRUE,
          feat |-> IF u6 \in DOMAIN idx_prov_ THEN idx_prov_[u6] ELSE NoFeature]
    ELSE [ubigeo |-> u6, source |-> "distritos", found |-> TRUE,
          feat |-> IF u6 \in DOMAIN idx_dist_ THEN idx_dist_[u6] ELSE NoFeature]

\* one pass of the catalogue loop of main: the entry written for u6
MixEntry(u6, idx_dist_, idx_prov_) ==
    IF EndsWith(u6, <<"0", "1">>)
    THEN [ubigeo |-> u6, source |-> "provincias",
          found |-> u6 \in DOMAIN idx_prov_,
          feat |-> IF u6 \in DOMAIN idx_prov_ THEN idx_prov_[u6] ELSE NoFeature]
    ELSE [ubigeo |-> u6, source |-> "distritos",
          found |-> u6 \in DOMAIN idx_dist_,
          feat |-> IF u6 \in DOMAIN idx_dist_ THEN idx_dist_[u6] ELSE NoFeature]

(***************************************************************************)
(* Boundary sources and datasets                                           *)
(***************************************************************************)

\* features over all boundary files of a run
MaxFeats == 2

\* coordinates run over 0..GridMax
GridMax == 2

C060101 == <<"0", "6", "0", "1", "0", "1">>

C060102 == <<"0", "6", "0", "1", "0", "2">>

\* property bags of district features
DistProps ==
    {<< <<K_IDDIST, C060102>> >>,
     << <<K_IDDIST, <<"6", "0", "1", "0", "2">> >> >>,
     << <<K_IDDIST, C060101>> >>,
     << <<K_IDDIST, C060102>>, <<K_UBIGEO, C060102>> >>}

\* property bags of province features
ProvProps ==
    {<< <<K_UBIGEO, C060101>> >>,
     << <<K_CodUbigeo, <<"6", "0", "1", "0", "1", ".", "0">> >> >>,
     << <<K_UBIGEO, <<"0", "6", "0", "1">> >>, <<K_IDPROV, <<"0", "6", "0", "1">> >> >>,
     << <<K_UBIGEO, <<>> >>, <<K_IDPROV, <<"6", "0", "1">> >> >>,
     << <<K_IDPROV, <<"0", "6", "0", "1">> >> >>,
     << <<K_IDPROV, <<"0", "6", "0", "2">> >> >>}

SquareRing == << <<0, 0>>, <<2, 0>>, <<2, 2>>, <<0, 2>>, <<0, 0>> >>

SquarePolygon == [type |-> "Polygon", coordinates |-> <<SquareRing>>]

\* a file's features: the k-th property bag becomes the feature named
\* <<file, k>>
FileOf(file, bags, geom) ==
    [k \in DOMAIN bags |->
        [name |-> <<file, k>>, properties |-> bags[k], geometry |-> geom]]

\* ubigeo_gestor cells of a dataset (None: no usable cell)
GestorCells ==
    {None, C060101, C060102, <<"6", "0", "1", "0", "1">>}

\* catalogues of mix_ubigeo_geojson
Catalogs == (SUBSET {C060101, C060102}) \ {{}}

Grid == (0..GridMax) \X (0..GridMax)

\* convex rings for the containment runs: 3 or 4 grid vertices turning
\* left at every corner (the winding of a GeoJSON exterior ring), listed
\* from their least vertex, open or closed by repeating the first vertex
Cross(o, a, b) ==
    (a[1] - o[1]) * (b[2] - o[2]) - (a[2] - o[2]) * (b[1] - o[1])

Turn(r, i) ==
    LET n == Len(r)
    IN Cross(r[i], r[(i % n) + 1], r[((i + 1) % n) + 1])

PointLess(a, b) == a[1] < b[1] \/ (a[1] = b[1] /\ a[2] < b[2])

IsConvexRing(r) ==
    /\ \A i \in 2..Len(r) : PointLess(r[1], r[i])
    /\ \A i \in DOMAIN r : Turn(r, i) > 0

ConvexRings ==
    {r \in [1..3 -> Grid] \cup [1..4 -> Grid] : IsConvexRing(r)}

RingsDrawn == ConvexRings \cup {r \o <<r[1]>> : r \in ConvexRings}

(***************************************************************************)
(* Boundaries and incident pools of the containment runs. Ring vertices    *)
(* lie on even coordinates (a grid ring doubled) and incidents on any      *)
(* integer, so that an incident can be level with no vertex.               *)
(***************************************************************************)

\* incident rows of one run of the incident loop
MaxRows == 2

Twice(r) == [i \in DOMAIN r |-> <<2 * r[i][1], 2 * r[i][2]>>]

\* triangles of the grid in both windings, flat ones included, listed from
\* their least vertex
Triangles ==
    {r \in [1..3 -> Grid] :
        PointLess(r[1], r[2]) /\ PointLess(r[1], r[3]) /\ r[2] # r[3]}

\* a square with a notch cut into its lower side (not convex)
NotchedRing == << <<0, 0>>, <<1, 1>>, <<2, 0>>, <<2, 2>>, <<0, 2>> >>

\* a ring that crosses itself
BowtieRing == << <<0, 0>>, <<2, 2>>, <<2, 0>>, <<0, 2>> >>

\* rings too short to enclose anything
ShortRings == {<<>>, << <<0, 0>> >>, << <<0, 0>>, <<1, 2>> >>}

\* the unit square of the grid, counter-clockwise
UnitRing == << <<0, 0>>, <<1, 0>>, <<1, 1>>, <<0, 1>> >>

\* the rings of the single-ring runs, those of four and more vertices also
\* closed by their first vertex
RingPool ==
    {Twice(r) : r \in Triangles \cup ShortRings
                        \cup {UnitRing, NotchedRing, BowtieRing}
                        \cup {r \o <<r[1]>> :
                                 r \in {UnitRing, NotchedRing, BowtieRing}}}

\* incidents of the single-ring runs: odd coordinates, level with no vertex
ProbePoints ==
    {pt \in (-1..(2 * GridMax + 1)) \X (-1..(2 * GridMax + 1)) :
        pt[1] % 2 = 1 /\ pt[2] % 2 = 1}

BigRing == << <<0, 0>>, <<4, 0>>, <<4, 4>>, <<0, 4>> >>

FarRing == << <<2, 2>>, <<4, 2>>, <<4, 4>>, <<2, 4>>, <<2, 2>> >>

\* geometries of boundary features: a square; a square with a square hole
\* in its lower left quarter; a MultiPolygon of the square, a polygon
\* without rings and a second square; a Point; a MultiLineString; a feature
\* without geometry; a Polygon without coordinates
Geometries ==
    <<SquarePolygon,
      [type |-> "Polygon", coordinates |-> <<BigRing, SquareRing>>],
      [type |-> "MultiPolygon",
       coordinates |-> << <<SquareRing>>, <<>>, <<FarRing>> >>],
      [type |-> "Point", coordinates |-> <<1, 1>>],
      [type |-> "MultiLineString", coordinates |-> <<SquareRing>>],
      NoGeometry,
      [type |-> "Polygon", coordinates |-> <<>>]>>

\* the k-th feature of a resolved boundary has the geometry gs[k]
BoundaryOf(gs) ==
    [k \in DOMAIN gs |->
        [name |-> <<"Boundary", k>>, properties |-> <<>>,
         geometry |-> Geometries[gs[k]]]]

\* an incident on the right edge of the square
EdgeIncident == <<2, 1>>

\* incidents of the runs over several features: inside the square, inside
\* the far square, on an edge, outside everything
Incidents == {<<1, 1>>, <<3, 3>>, EdgeIncident, <<5, 5>>}

(***************************************************************************)
(* build_site.py: the catalogue indexes and the code recovered for a       *)
(* workbook from its file name                                             *)
(***************************************************************************)

\* str.split(sep) for a one-character separator: every occurrence splits
RECURSIVE SplitFrom(_, _, _)
SplitFrom(s, sep, cur) ==
    IF s = <<>> THEN <<cur>>
    ELSE IF Head(s) = sep
         THEN <<cur>> \o SplitFrom(Tail(s), sep, <<>>)
         ELSE SplitFrom(Tail(s), sep, Append(cur, Head(s)))

Split(s, sep) == SplitFrom(s, sep, <<>>)

\* _split_slug: dep, prov, dist are the first three pieces of name.split("-")
_split_slug(name) ==
    LET parts == Split(name, "-")
    IN [dep |-> IF Len(parts) > 0 THEN parts[1] ELSE <<>>,
        prov |-> IF Len(parts) > 1 THEN parts[2] ELSE <<>>,
        dist |-> IF Len(parts) > 2 THEN parts[3] ELSE <<>>]

\* s.replace(ch, "")
Without(s, ch) == LET Keep(c) == c # ch IN SelectSeq(s, Keep)

\* _norm_for_key: lower case, blanks and underscores removed
_norm_for_key(s) == Without(Without(Lower(s), " "), "_")

\* _key_from_parts: "|".join of the three normalised parts
_key_from_parts(dep, prov, dist) ==
    _norm_for_key(dep) \o <<"|">> \o _norm_for_key(prov) \o <<"|">>
        \o _norm_for_key(dist)

\* one pass of the loop of _load_catalog_index over catalogue row r
IndexRow(idx, r) ==
    LET slug == Strip(r.slug)
        ubi == Strip(r.ubigeo)
        dep == Strip(r.departamento)
        prov == Strip(r.provincia)
        dist == Strip(r.distrito)
        s == _split_slug(slug)
    IN IF slug # <<>>
       THEN [slug |-> DictPut(idx.slug, Lower(slug), ubi),
             parts |-> DictPut(idx.parts,
                               _key_from_parts(s.dep, s.prov, s.dist), ubi)]
       ELSE IF dep # <<>> \/ prov # <<>> \/ dist # <<>>
       THEN [slug |-> idx.slug,
             parts |-> DictPut(idx.parts,
                               _key_from_parts(dep, prov, dist), ubi)]
       ELSE idx

RECURSIVE IndexRows(_, _)
IndexRows(rows, idx) ==
    IF rows = <<>> THEN idx
    ELSE IndexRows(Tail(rows), IndexRow(idx, Head(rows)))

\* _load_catalog_index: (idx_slug, idx_parts); both empty without catalogue
_load_catalog_index(exists, df) ==
    IF ~exists THEN [slug |-> EmptyDict, parts |-> EmptyDict]
    ELSE IndexRows(df, [slug |-> EmptyDict, parts |-> EmptyDict])

\* the catalogue lookup of _scan_items_generic for the workbook called name
LookupUbigeo(name, idx_slug_, idx_parts_) ==
    LET s == _split_slug(name)
        slug_lower == Lower(name)
        key == _key_from_parts(s.dep, s.prov, s.dist)
    IN IF slug_lower \in DOMAIN idx_slug_ THEN idx_slug_[slug_lower]
       ELSE IF key \in DOMAIN idx_parts_ THEN idx_parts_[key]
       ELSE <<>>

\* the item _scan_items_generic appends for the workbook called name (the
\* links and the has_map flag depend on files that are not modelled)
ScanItem(name, idx_slug_, idx_parts_) ==
    LET s == _split_slug(name)
    IN [name |-> name,
        data_dep |-> s.dep,
        data_prov |-> s.prov,
        data_dist |-> s.dist,
        data_ubi |-> LookupUbigeo(name, idx_slug_, idx_parts_)]

\* _scan_items_generic over the workbooks of one section, sorted
_scan_items_generic(excels, idx_slug_, idx_parts_) ==
    LET order == Sorted(excels)
    IN [i \in DOMAIN order |-> ScanItem(order[i], idx_slug_, idx_parts_)]

\* load_items_inter / load_items_estab: the index is read, then the scan
load_items(exists, df, excels) ==
    LET idx == _load_catalog_index(exists, df)
    IN _scan_items_generic(excels, idx.slug, idx.parts)

\* ---- inputs of the site runs ----

CatalogRow(slug_, ubigeo_, dep, prov, dist) ==
    [slug |-> slug_, ubigeo |-> ubigeo_, departamento |-> dep,
     provincia |-> prov, distrito |-> dist]

S_AAA == <<"A", "-", "A", "-", "A">>

\* catalogues: a slug row and a row without slug; a slug row overtaken in
\* the parts index by a later row without slug; a slug with three hyphens
\* and a padded slug; no row
SiteCatalogs ==
    {<<CatalogRow(S_AAA, C060101, <<>>, <<>>, <<>>),
       CatalogRow(<<>>, C060102, <<"A">>, <<"A">>, <<"A", " ", "A">>)>>,
     <<CatalogRow(S_AAA, C060101, <<>>, <<>>, <<>>),
       CatalogRow(<<>>, C060102, <<"A">>, <<"a">>, <<"A">>)>>,
     <<CatalogRow(S_AAA \o <<"-", "A">>, C060101, <<>>, <<>>, <<>>),
       CatalogRow(<<" ">> \o S_AAA \o <<"_">>, <<" ">> \o C060102,
                  <<>>, <<>>, <<>>)>>,
     <<>>}

NameChars == {"A", "-", "_"}

\* workbook names (file stems) of Intersecciones/excels
SiteNames == UNION {[1..n -> NameChars] : n \in 1..MaxLen}

\* the workbooks of EstablecimientoSalud/excels: none or one
EstabDirs == {{}, {<<"a", "-", "a", "-", "a", " ", "a">>}}

Sections == {"Intersecciones", "EstablecimientoSalud"}

(***************************************************************************)
(* maps_establecimientos.py: main over the workbooks of the excels folder  *)
(***************************************************************************)

\* a numeric cell after pd.to_numeric(errors="coerce"): <<n>>, or NaN
NaN == <<>>

H_latitud == <<"l", "a", "t", "i", "t", "u", "d">>

H_longitud == <<"l", "o", "n", "g", "i", "t", "u", "d">>

H_ubigeo_gestor ==
    <<"u", "b", "i", "g", "e", "o", "_", "g", "e", "s", "t", "o", "r">>

\* df.columns = [str(c).strip().lower() for c in df.columns]
Columns(headers) == {Lower(Strip(h)) : h \in headers}

\* df.dropna(subset=["latitud","longitud"])
ValidRows(rows) ==
    LET Valid(r) == r.latitud # NaN /\ r.longitud # NaN
    IN SelectSeq(rows, Valid)

\* how map_for_excel ends on workbook wb before anything is drawn: "ok", or
\* the exception raised
Outcome(wb) ==
    IF ~wb.readable THEN "Exception"
    ELSE IF ~({H_latitud, H_longitud} \subseteq Columns(wb.headers))
    THEN "KeyError"
    ELSE IF ValidRows(wb.rows) = <<>> THEN "ValueError"
    ELSE "ok"

\* the first non-empty ubigeo_gestor cell of the cleaned rows, None without
\* the column or without a value
FirstGestorCell(wb) ==
    LET HasCell(r) == r.ubigeo_gestor # None
        cells == SelectSeq(ValidRows(wb.rows), HasCell)
    IN IF H_ubigeo_gestor \in Columns(wb.headers) /\ cells # <<>>
       THEN cells[1].ubigeo_gestor
       ELSE None

\* the (lon, lat) of the markers drawn for the rows of the workbook
DrawnPoints(wb) ==
    LET rows == ValidRows(wb.rows)
    IN [i \in DOMAIN rows |-> <<rows[i].longitud[1], rows[i].latitud[1]>>]

\* plausible slip: the first failure ends the loop
AfterAttempt_abort(generated_, errors_, x, outcome) ==
    IF outcome = "ok"
    THEN [generated |-> Append(generated_, x), errors |-> errors_,
          go_on |-> TRUE]
    ELSE [generated |-> generated_, errors |-> Append(errors_, x),
          go_on |-> FALSE]

\* the try/except of main around map_for_excel on workbook x
AfterAttempt(generated_, errors_, x, outcome) ==
    IF outcome = "ok"
    THEN [generated |-> Append(generated_, x), errors |-> errors_,
          go_on |-> TRUE]
    ELSE [generated |-> generated_, errors |-> Append(errors_, x),
          go_on |-> TRUE]

\* ---- inputs of the batch runs ----

StaticInputs == {"Distritos", "Provincias1", "Provincias2", "Siniestros"}

Row(lat, lon, cell) == [latitud |-> lat, longitud |-> lon,
                        ubigeo_gestor |-> cell]

Workbook(ok, hs, rs) == [readable |-> ok, headers |-> hs, rows |-> rs]

AllHeaders == {H_latitud, H_longitud, H_ubigeo_gestor}

\* a district workbook with padded upper-case headers; a province workbook
\* whose first row has no latitude; a workbook without the code column; one
\* whose code cells hold no digit or nothing; one with "lat" for "latitud";
\* one without a parsable coordinate; one that read_excel cannot open
Workbooks ==
    <<Workbook(TRUE, {<<" ">> \o Upper(H_latitud), H_longitud,
                      H_ubigeo_gestor},
               <<Row(<<1>>, <<1>>, C060102)>>),
      Workbook(TRUE, AllHeaders,
               <<Row(NaN, <<3>>, C060102), Row(<<1>>, <<3>>, C060101)>>),
      Workbook(TRUE, {H_latitud, H_longitud},
               <<Row(<<1>>, <<1>>, None), Row(<<1>>, <<0>>, None)>>),
      Workbook(TRUE, AllHeaders,
               <<Row(<<1>>, <<1>>, None), Row(<<0>>, <<1>>, <<"-", " ">>)>>),
      Workbook(TRUE, {<<"l", "a", "t">>, H_longitud, H_ubigeo_gestor},
               <<Row(<<1>>, <<1>>, C060102)>>),
      Workbook(TRUE, AllHeaders,
               <<Row(NaN, <<1>>, C060102), Row(<<1>>, NaN, C060102)>>),
      Workbook(FALSE, {}, <<>>)>>

\* file names of the workbooks, which sort as strings: 1 < 10 < 2
BookNames == {<<"1">>, <<"2">>, <<"1", "0">>}

\* the contents of the excels folder: name -> workbook
ExcelFolders ==
    UNION {[names -> DOMAIN Workbooks] : names \in SUBSET BookNames}

\* the boundary files of the batch runs: one district and one province
BatchDistritos == FileOf("Distritos", << << <<K_IDDIST, C060102>> >> >>,
                         SquarePolygon)

BatchProvincias ==
    <<FileOf("Provincias1", << << <<K_UBIGEO, C060101>> >> >>,
             [type |-> "Polygon", coordinates |-> <<BigRing>>]),
      <<>> >>

BatchSiniestros == << <<1, 1>>, <<3, 1>>, <<5, 5>> >>

(***************************************************************************)
(* Marker search of the map pages: searchAndHighlight and clearHighlights  *)
(***************************************************************************)

SearchMaps == {"maps_establecimientos", "maps_intersecciones"}

Marker(name_raw, code_raw) == [name |-> name_raw, code |-> code_raw]

\* the text of the hidden tooltip of a marker: "nombre | codigo" in lower
\* case
tooltip_text(mk) == Lower(mk.name) \o <<" ", "|", " ">> \o Lower(mk.code)

\* searchAndHighlight of maps_establecimientos: both queries are looked up
\* in the whole tooltip text, and an empty query is satisfied by every marker
searchAndHighlight_estab(mks, name_value, code_value) ==
    LET qn == Strip(Lower(name_value))
        qc == Strip(Lower(code_value))
        ok_name(txt) == qn = <<>> \/ Contains(txt, qn)
        ok_code(txt) == qc = <<>> \/ Contains(txt, qc)
    IN {i \in DOMAIN mks :
           ok_name(tooltip_text(mks[i])) \/ ok_code(tooltip_text(mks[i]))}

\* txt.split('|', 2)[k], or '' when there is no such piece
BarPiece(txt, k) ==
    LET parts == Split(txt, "|")
    IN IF Len(parts) >= k THEN parts[k] ELSE <<>>

\* searchAndHighlight of maps_intersecciones: each query is looked up in its
\* own piece of the tooltip text, and only when the field is not blank
searchAndHighlight_inter(mks, name_value, code_value) ==
    LET qn == Lower(name_value)
        qc == Lower(code_value)
        useName == Len(Strip(name_value)) > 0
        useCode == Len(Strip(code_value)) > 0
        nameTxt(txt) == Strip(BarPiece(txt, 1))
        codeTxt(txt) == Strip(BarPiece(txt, 2))
        matchName(txt) == useName /\ Contains(nameTxt(txt), qn)
        matchCode(txt) == useCode /\ Contains(codeTxt(txt), qc)
    IN IF ~useName /\ ~useCode THEN {}
       ELSE {i \in DOMAIN mks :
                matchName(tooltip_text(mks[i]))
                    \/ matchCode(tooltip_text(mks[i]))}

searchAndHighlight(map, mks, name_value, code_value) ==
    IF map = "maps_establecimientos"
    THEN searchAndHighlight_estab(mks, name_value, code_value)
    ELSE searchAndHighlight_inter(mks, name_value, code_value)

\* clearHighlights: every marker back to defaultColor
NoHighlights == [map \in SearchMaps |-> {}]

\* the markers of a page: names in mixed case, one name with a bar
MarkerLists ==
    {<<Marker(<<"A", "b">>, <<"1", "2">>), Marker(<<"b">>, <<"3">>)>>,
     <<Marker(<<"A", "|", "b">>, <<"1">>), Marker(<<"c">>, <<"2">>)>>}

\* what the user types in a search field
Queries == {<<>>, <<" ">>, <<"a">>, <<"B">>, <<"b", " ">>, <<"1">>}

(***************************************************************************)
(* Distance tool of maps_intersecciones: toggleMeasure, the map click,     *)
(* the drag of a marker                                                    *)
(***************************************************************************)

\* JavaScript null for a marker
null == <<>>

\* positions of the map a click or a drag can report, as <<lat, lng>>
LatLngs == (0..GridMax) \X (0..(GridMax + 1))

\* mLine = null
NoLine == [latlngs |-> <<>>, tooltip |-> <<>>]

LayerTitles == {"Punto A", "Punto B", "line"}

NoLayers == [title \in LayerTitles |-> 0]

\* layer.addTo(ly_map)
addTo(layers, title) == [layers EXCEPT ![title] = @ + 1]

\* ly_map.removeLayer(layer)
removeLayer(layers, title) ==
    [layers EXCEPT ![title] = IF @ > 0 THEN @ - 1 ELSE 0]

\* the label of the line: the haversine distance of a and b in m or km; it
\* is kept as the pair of positions it was computed from
MeasureLabel(a, b) == <<a, b>>

\* plausible slip: an existing line is not moved
updateMeasure_stale(a, b, line, layers) ==
    IF ~(a # null /\ b # null)
    THEN [mLine |-> line, map_layers |-> layers]
    ELSE IF line = NoLine
         THEN [mLine |-> [latlngs |-> <<a, b>>,
                          tooltip |-> MeasureLabel(a, b)],
               map_layers |-> addTo(layers, "line")]
         ELSE [mLine |-> line, map_layers |-> layers]

\* updateMeasure with markers at a and b: nothing without both markers; the
\* line is created on the map, or moved, and its label rewritten
updateMeasure(a, b, line, layers) ==
    IF ~(a # null /\ b # null)
    THEN [mLine |-> line, map_layers |-> layers]
    ELSE [mLine |-> [latlngs |-> <<a, b>>, tooltip |-> MeasureLabel(a, b)],
          map_layers |-> IF line = NoLine THEN addTo(layers, "line")
                         ELSE layers]

\* clearMeasure: the layers that exist are removed from the map
clearMeasure(a, b, line, layers) ==
    LET l1 == IF a # null THEN removeLayer(layers, "Punto A") ELSE layers
        l2 == IF b # null THEN removeLayer(l1, "Punto B") ELSE l1
    IN IF line # NoLine THEN removeLayer(l2, "line") ELSE l2

(***************************************************************************)
(* The two coercions of the flag mantenimiento: to_bool of                 *)
(* process_colegios and to_bool_soft of maps_from_excels                   *)
(***************************************************************************)

\* a cell value: a Python bool, a missing value, or anything else by its
\* str()
BoolCell(b) == [kind |-> "bool", b |-> b, s |-> <<>>]

NaNCell == [kind |-> "nan", b |-> FALSE, s |-> <<>>]

StrCell(s) == [kind |-> "str", b |-> FALSE, s |-> s]

_TRUE ==
    {<<"t", "r", "u", "e">>, <<"1">>, <<"s", "i">>, <<"s", "i^">>, <<"x">>,
     <<"t">>, <<"y">>}

_FALSE ==
    {<<"f", "a", "l", "s", "e">>, <<"0">>, <<"n", "o">>, <<"n">>, <<"f">>,
     <<"f", "l", "a", "s", "e">>}

TRUE_SET ==
    {<<"t", "r", "u", "e">>, <<"1">>, <<"s", "i">>, <<"s", "i^">>, <<"x">>,
     <<"t">>, <<"y">>, <<"s">>,
     <<"v", "e", "r", "d", "a", "d", "e", "r", "o">>, <<"y", "e", "s">>}

FALSE_SET ==
    {<<"f", "a", "l", "s", "e">>, <<"0">>, <<"n", "o">>, <<"n">>, <<"f">>,
     <<"f", "l", "a", "s", "e">>, <<"f", "a", "l", "s", "o">>,
     <<"n", "o", "t">>}

\* to_bool of process_colegios
to_bool(x) ==
    IF x.kind = "bool" THEN x.b
    ELSE IF x.kind = "nan" THEN FALSE
    ELSE LET s == norm(x.s)
         IN IF s \in _FALSE THEN FALSE
            ELSE IF s \in _TRUE THEN TRUE
            ELSE s # <<>>

\* to_bool_soft of maps_from_excels
to_bool_soft(x) ==
    IF x.kind = "bool" THEN x.b
    ELSE IF x.kind = "nan" THEN FALSE
    ELSE LET s == Lower(Strip(x.s))
         IN IF s \in TRUE_SET THEN TRUE
            ELSE IF s \in FALSE_SET THEN FALSE
            ELSE s # <<>>

\* texts a flag cell is written with, besides the words of the four sets
OtherWords ==
    {<<>>, <<"n", "o^">>, <<"a", "b", "c">>, <<"0", ".", "0">>}

\* every word as written, in capitals and between blanks
FlagTexts ==
    LET words == _TRUE \cup _FALSE \cup TRUE_SET \cup FALSE_SET
                     \cup OtherWords
    IN words \cup {Upper(w) : w \in words}
             \cup {<<" ">> \o w \o <<" ">> : w \in words}

FlagCells ==
    {BoolCell(TRUE), BoolCell(FALSE), NaNCell}
        \cup {StrCell(s) : s \in FlagTexts}

(***************************************************************************)
(* The catalogue builder and the splitting scripts: municipalidades_build, *)
(* split_intersecciones_to_excels, split_establecimientos_to_excels,       *)
(* split_excels_por_muni                                                   *)
(***************************************************************************)

\* s.replace(old, new) for single characters
ReplaceChar(s, old, new) ==
    [i \in DOMAIN s |-> IF s[i] = old THEN new ELSE s[i]]

\* " ".join(t.split()): runs of blanks become one blank, none at the ends
RECURSIVE CollapseBlanks(_)
CollapseBlanks(s) ==
    LET t == Strip(s)
    IN IF t = <<>> THEN <<>>
       ELSE IF Head(t) = " " THEN CollapseBlanks(Tail(t))
       ELSE IF Len(t) >= 2 /\ t[2] = " "
            THEN <<Head(t), " ">> \o CollapseBlanks(Tail(Tail(t)))
            ELSE <<Head(t)>> \o CollapseBlanks(Tail(t))

\* clean_part_for_slug of municipalidades_build: lower-case accents
\* replaced, blanks collapsed, upper case, blanks to underscores
clean_part_for_slug(s) ==
    LET t == Strip(s)
        u == [i \in DOMAIN t |-> Unaccent(t[i])]
    IN ReplaceChar(Upper(CollapseBlanks(u)), " ", "_")

\* one row of MUNICIPALIDADES.csv
MuniRow(code_, dep, prov, dist) ==
    [ubigeo |-> code_, departamento |-> dep, provincia |-> prov,
     distrito |-> dist]

\* the catalogue row municipalidades_build writes for r
CatalogRowOf(r) ==
    CatalogRow(clean_part_for_slug(r.departamento) \o <<"-">>
                   \o clean_part_for_slug(r.provincia) \o <<"-">>
                   \o clean_part_for_slug(r.distrito),
               to_ubigeo6(r.ubigeo), Strip(r.departamento),
               Strip(r.provincia), Strip(r.distrito))

\* main of municipalidades_build: rows without code dropped, the first row
\* of each code kept
BuildCatalog(rows) ==
    LET all == [i \in DOMAIN rows |-> CatalogRowOf(rows[i])]
        First(i) == /\ all[i].ubigeo # None
                    /\ \A j \in 1..(i - 1) : all[j].ubigeo # all[i].ubigeo
        idx == {i \in DOMAIN all : First(i)}
        RECURSIVE Take(_)
        Take(i) == IF i > Len(all) THEN <<>>
                   ELSE (IF i \in idx THEN <<all[i]>> ELSE <<>>) \o Take(i + 1)
    IN Take(1)

\* the characters the pattern of sanitize_filename keeps
FilenameChars ==
    {LowerLetters[i] : i \in DOMAIN LowerLetters}
        \cup {UpperLetters[i] : i \in DOMAIN UpperLetters}
        \cup AsciiDigits \cup {"_", "-", "."}

\* sanitize_filename: blanks to underscores, other characters outside the
\* pattern removed, "SIN_NOMBRE" for an empty result
sanitize_filename(name) ==
    LET t == ReplaceChar(Strip(name), " ", "_")
        Keep(ch) == ch \in FilenameChars
        kept_ == SelectSeq(t, Keep)
    IN IF kept_ = <<>> THEN <<"S", "I", "N", "_", "N", "O", "M", "B", "R", "E">>
       ELSE kept_

\* safe_slug of split_excels_por_muni: slashes become hyphens
safe_slug(s) == ReplaceChar(ReplaceChar(Strip(s), "/", "-"), "\\", "-")

\* norm_folder of pick_filename_and_dirs
norm_folder(x) ==
    LET t == clean_part_for_slug(x)
    IN IF t = <<>> THEN <<"_">> ELSE t

\* the column ubigeo_gestor after astype(str): a missing code reads as the
\* text the pandas build gives it, or stays missing
AsTypeStr(g, missing_text) == IF g = None THEN missing_text ELSE g

\* the rows of table whose column reads key
RowsOf(col, key) == {i \in DOMAIN col : col[i] = key}

\* the first catalogue row whose code, zero-filled to six, is u6
FirstMuni(cat, u6) ==
    LET hits == {i \in DOMAIN cat :
                    Prefix(ZFill(cat[i].ubigeo, UbigeoLen), UbigeoLen) = u6}
    IN IF hits = {} THEN 0
       ELSE CHOOSE i \in hits : \A j \in hits : i <= j

\* the slug under which main of a *_to_excels script files the group u6
SlugFor(cat, u6) ==
    LET i == FirstMuni(cat, u6)
    IN IF i = 0 THEN u6
       ELSE IF cat[i].slug # <<>> THEN cat[i].slug
       ELSE cat[i].departamento \o <<"-">> \o cat[i].provincia \o <<"-">>
                \o cat[i].distrito

\* the loop of main over keys: one workbook and one catalogue row per key; a
\* workbook written twice holds the rows of the later key
RECURSIVE ExportLoop(_, _, _, _)
ExportLoop(keys, col, cat, out) ==
    IF keys = <<>> THEN out
    ELSE LET u6 == Head(keys)
             safe == sanitize_filename(SlugFor(cat, u6))
         IN ExportLoop(Tail(keys), col, cat,
                [files |-> DictPut(out.files, <<safe>>, RowsOf(col, u6)),
                 catalog |-> out.catalog \cup
                     {[ubigeo_gestor |-> u6, slug |-> safe,
                       path |-> <<safe>>]}])

NoExports == [files |-> EmptyDict, catalog |-> {}]

\* main of split_intersecciones_to_excels and of
\* split_establecimientos_to_excels on the input rows and the catalogue
SplitMain(table, cat, missing_text) ==
    LET col == [i \in DOMAIN table |->
                   AsTypeStr(compute_gestor(table[i].ubigeo,
                                            table[i].competencia),
                             missing_text)]
        keys == {col[i] : i \in DOMAIN col} \ {None, <<>>}
    IN ExportLoop(Sorted(keys), col, cat, NoExports)

\* pick_filename_and_dirs: the path of the workbook of u6, as its folders
\* under the base folder followed by the file stem
pick_filename_and_dirs(u6, cat, by_hierarchy) ==
    LET i == IF \E k \in DOMAIN cat : cat[k].ubigeo = u6
             THEN CHOOSE k \in DOMAIN cat :
                      /\ cat[k].ubigeo = u6
                      /\ \A j \in 1..(k - 1) : cat[j].ubigeo # u6
             ELSE 0
        slug == IF i = 0 THEN <<>> ELSE cat[i].slug
        name == IF slug # <<>> THEN safe_slug(slug) ELSE u6
        Or(x, dflt) == IF i = 0 \/ x = <<>> THEN dflt ELSE x
        dep == Or(IF i = 0 THEN <<>> ELSE cat[i].departamento, Prefix(u6, 2))
        prov == Or(IF i = 0 THEN <<>> ELSE cat[i].provincia, Prefix(u6, 4))
        dist == Or(IF i = 0 THEN <<>> ELSE cat[i].distrito, u6)
    IN IF by_hierarchy
       THEN <<norm_folder(dep), norm_folder(prov), norm_folder(dist), name>>
       ELSE <<name>>

\* the loop of export_excels over the groups of ubigeo_gestor
RECURSIVE ExportGroups(_, _, _, _, _)
ExportGroups(keys, col, cat, by_hierarchy, out) ==
    IF keys = <<>> THEN out
    ELSE LET u6 == to_ubigeo6(Head(keys))
             out_path == pick_filename_and_dirs(u6, cat, by_hierarchy)
         IN ExportGroups(Tail(keys), col, cat, by_hierarchy,
                [files |-> DictPut(out.files, out_path,
                                   RowsOf(col, Head(keys))),
                 catalog |-> out.catalog \cup
                     {[ubigeo_gestor |-> u6,
                       slug |-> out_path[Len(out_path)],
                       path |-> out_path]}])

\* load_colegios_clean and export_excels of split_excels_por_muni on the
\* rows process_colegios wrote: groupby(dropna=True) leaves the rows
\* without code out
export_excels(table, cat, by_hierarchy) ==
    LET col == [i \in DOMAIN table |->
                   to_ubigeo6(compute_gestor_colegios(table[i].ubigeo,
                                                      table[i].competencia))]
        keys == {col[i] : i \in DOMAIN col} \ {None}
    IN ExportGroups(Sorted(keys), col, cat, by_hierarchy, NoExports)

Splitters ==
    {"split_intersecciones_to_excels", "split_establecimientos_to_excels",
     "split_excels_por_muni"}

\* one run of a splitting script
RunSplitter(script, table, cat, missing_text, by_hierarchy) ==
    IF script = "split_excels_por_muni"
    THEN export_excels(table, cat, by_hierarchy)
    ELSE SplitMain(table, cat, missing_text)

\* rows of an ingested table: a district code, another, the same under a
\* provincial competence, no code, a code text without digits
InputRow(code_, label) == [ubigeo |-> code_, competencia |-> label]

InputRows ==
    {InputRow(C060101, None), InputRow(C060102, None),
     InputRow(C060102, <<"P", "r", "o", "v", "i", "n", "c", "i", "a", "l">>),
     InputRow(None, None), InputRow(<<"s", "/", "n">>, None)}

\* longest ingested table drawn
MaxTable == 2

InputTables == UNION {[1..n -> InputRows] : n \in 0..MaxTable}

\* MUNICIPALIDADES.csv: plain names; a name with parentheses next to the
\* name without them; one such name alone; a lower-case accented name and
\* an uncatalogued second code
MuniFiles ==
    {<<MuniRow(C060101, <<"A">>, <<"B">>, <<"C">>),
       MuniRow(C060102, <<"A">>, <<"B">>, <<"D">>)>>,
     <<MuniRow(C060101, <<"A">>, <<"B">>, <<"C", " ", "(", "X", ")">>),
       MuniRow(C060102, <<"A">>, <<"B">>, <<"C", " ", "X">>)>>,
     <<MuniRow(C060101, <<"A">>, <<"B">>, <<"C", " ", "(", "X", ")">>)>>,
     <<MuniRow(C060101, <<"A">>, <<"B">>, <<"c", " ", "o^">>)>>}

\* what astype(str) makes of a missing code: "None", "nan", or missing
MissingTexts == {<<"N", "o", "n", "e">>, <<"n", "a", "n">>, None}

VARIABLES
    raw,          \* the cell value handed to to_ubigeo6 (None or a string)
    code,         \* script -> to_ubigeo6(raw)
    recode,       \* script -> to_ubigeo6(code[script])
    npc,          \* "input", "normalized", "renormalized"
    ubigeo,       \* the ubigeo cell of an ingested row
    competencia,  \* the competence label cell of the row (None: empty)
    original,     \* pipeline -> the row's normalised code
    gestor,       \* pipeline -> the row's ubigeo_gestor
    gpc,          \* "row", "done"
    distritos_gj,        \* features of the district GeoJSON
    provincias_gj_list,  \* features of each province GeoJSON, in order
    siniestros_df,       \* the incident rows, as <<lon, lat>>
    bpc,                 \* "loaded", "mapped", "mixed"
    ubigeo_gestor,       \* map_for_excel: first ubigeo_gestor cell
    target_ubi,          \* map_for_excel: its normalised code
    feats,               \* map_for_excel: the resolved boundary
    consulted,           \* map_for_excel: boundary sources searched
    kept,                \* map_for_excel: incidents drawn on the map
    edge_tie,            \* map_for_excel: float outcome for a point on an edge
    row,                 \* map_for_excel: incident rows visited by the loop
    catalogo,            \* mix: the catalogue codes
    prov_indexes,        \* mix: one index per province file
    idx_dist,            \* mix: the district index
    idx_prov,            \* mix: the merged province index
    dups,                \* mix: codes found in more than one province file
    mix_features,        \* mix: the entries written, in catalogue order
    skipped,             \* mix: the entries without geometry
    catalog_exists,      \* build_site: CATALOG_CSV is on disk
    catalog_df,          \* build_site: the rows of the catalogue
    excels,              \* build_site: section -> workbook names on disk
    idx_slug,            \* build_site: the slug index last built
    idx_parts,           \* build_site: the parts index last built
    index_builds,        \* build_site: calls of _load_catalog_index so far
    items,               \* build_site: section -> items of its page
    pages,               \* build_site: the pages written
    spc,                 \* build_site: "start", "home", "zonas", "inter",
                         \* "estab", "aborted"
    static_files,        \* main: the static inputs on disk
    excel_folder,        \* main: workbook name -> its number in Workbooks
    excel_files,         \* main: scan_excels(excels_root)
    attempts,            \* main: the workbooks handed to map_for_excel
    generated,           \* main: the maps generated, in order
    errors,              \* main: the workbooks reported with [ERROR]
    puntos,              \* map_for_excel: the markers of the workbook rows
    saved,               \* main: the map files saved
    index_items,         \* main: the list written to _index_maps.html
    mpc,                 \* main: "start", "loop", "done", "aborted"
    markers,             \* map page: the markers drawn, as [name, code]
    q_name,              \* map page: value of the input q_name
    q_code,              \* map page: value of the input q_code
    highlighted,         \* map page -> the markers in hiliteColor
    upc,                 \* map page: "loaded", "typed", "searched",
                         \* "cleared"
    measuring,           \* measure tool: the flag measuring
    mA,                  \* measure tool: position of marker A, or null
    mB,                  \* measure tool: position of marker B, or null
    mLine,               \* measure tool: the line and its label, or null
    map_layers,          \* measure tool: title -> layers of it on the map
    clicks,              \* measure tool: map clicks handled since the
                         \* tool was switched on (3: three or more)
    flag_cell,           \* flag: the raw value of a mantenimiento cell
    flag_ingest,         \* flag: <<to_bool(flag_cell)>> once coerced
    flag_map,            \* flag: <<to_bool_soft(flag_cell)>> once coerced
    fpc,                 \* flag: "raw", "coerced"
    muni_file,           \* split: the rows of MUNICIPALIDADES.csv
    input_table,         \* split: the rows of the ingested table
    astype_missing,      \* split: what astype(str) makes of a missing code
    hierarchy,           \* split: the option --by-hierarchy
    muni_catalog,        \* split: municipalidades_catalog.csv
    exports,             \* split: script -> its workbooks and catalogue
    split_done,          \* split: the splitting scripts that have run
    scanned,             \* split: script -> items build_site lists for
                         \* its workbooks
    xpc                  \* split: "start", "catalogued", "scanned"

normVars == <<raw, code, recode, npc>>

gestorVars == <<ubigeo, competencia, original, gestor, gpc>>

sourceVars == <<distritos_gj, provincias_gj_list, siniestros_df>>

mapVars == <<ubigeo_gestor, target_ubi, feats, consulted, kept, edge_tie,
            row>>

mixVars == <<catalogo, prov_indexes, idx_dist, idx_prov, dups, mix_features,
             skipped>>

siteVars == <<catalog_exists, catalog_df, excels, idx_slug, idx_parts,
              index_builds, items, pages, spc>>

batchVars == <<static_files, excel_folder, excel_files, attempts, generated,
               errors, puntos, saved, index_items, mpc>>

searchVars == <<markers, q_name, q_code, highlighted, upc>>

measureVars == <<measuring, mA, mB, mLine, map_layers, clicks>>

flagVars == <<flag_cell, flag_ingest, flag_map, fpc>>

splitVars == <<muni_file, input_table, astype_missing, hierarchy,
               muni_catalog, exports, split_done, scanned, xpc>>

toolVars == <<searchVars, measureVars, flagVars, splitVars>>

\* the variables a tool leaves alone
notSearch == <<measureVars, flagVars, splitVars>>

notMeasure == <<searchVars, flagVars, splitVars>>

notFlag == <<searchVars, measureVars, splitVars>>

notSplit == <<searchVars, measureVars, flagVars>>

vars == <<normVars, gestorVars, sourceVars, bpc, mapVars, mixVars, siteVars,
          batchVars, toolVars>>

NoCodes == [s \in Scripts |-> None]

NoGestor == [p \in Pipelines |-> None]

NormIdle ==
    /\ raw = None
    /\ code = NoCodes
    /\ recode = NoCodes
    /\ npc = "idle"

GestorIdle ==
    /\ ubigeo = None
    /\ competencia = None
    /\ original = NoGestor
    /\ gestor = NoGestor
    /\ gpc = "idle"

\* nothing mapped or mixed yet
NoOutputs ==
    /\ ubigeo_gestor = None
    /\ target_ubi = None
    /\ feats = <<>>
    /\ consulted = {}
    /\ kept = <<>>
    /\ edge_tie = FALSE
    /\ row = 0
    /\ catalogo = {}
    /\ prov_indexes = <<>>
    /\ idx_dist = EmptyDict
    /\ idx_prov = EmptyDict
    /\ dups = {}
    /\ mix_features = <<>>
    /\ skipped = <<>>

NoItems == [s \in Sections |-> <<>>]

SiteIdle ==
    /\ catalog_exists = FALSE
    /\ catalog_df = <<>>
    /\ excels = [s \in Sections |-> {}]
    /\ idx_slug = EmptyDict
    /\ idx_parts = EmptyDict
    /\ index_builds = 0
    /\ items = NoItems
    /\ pages = {}
    /\ spc = "idle"

\* main has not scanned nor processed anything
NoBatch ==
    /\ excel_files = <<>>
    /\ attempts = <<>>
    /\ generated = <<>>
    /\ errors = <<>>
    /\ puntos = <<>>
    /\ saved = {}
    /\ index_items = <<>>

BatchIdle ==
    /\ static_files = {}
    /\ excel_folder = EmptyDict
    /\ NoBatch
    /\ mpc = "idle"

SearchIdle ==
    /\ markers = <<>>
    /\ q_name = <<>>
    /\ q_code = <<>>
    /\ highlighted = NoHighlights
    /\ upc = "idle"

MeasureIdle ==
    /\ measuring = FALSE
    /\ mA = null
    /\ mB = null
    /\ mLine = NoLine
    /\ map_layers = NoLayers
    /\ clicks = 0

FlagIdle ==
    /\ flag_cell = NaNCell
    /\ flag_ingest = <<>>
    /\ flag_map = <<>>
    /\ fpc = "idle"

NotSplitYet ==
    /\ muni_catalog = <<>>
    /\ exports = [script \in Splitters |-> NoExports]
    /\ split_done = {}
    /\ scanned = [script \in SplitScripts |-> {}]

SplitIdle ==
    /\ muni_file = <<>>
    /\ input_table = <<>>
    /\ astype_missing = None
    /\ hierarchy = FALSE
    /\ NotSplitYet
    /\ xpc = "idle"

ToolIdle == SearchIdle /\ MeasureIdle /\ FlagIdle /\ SplitIdle

BoundaryIdle ==
    /\ distritos_gj = <<>>
    /\ provincias_gj_list = <<>>
    /\ siniestros_df = <<>>
    /\ bpc = "idle"
    /\ NoOutputs

InitNorm ==
    /\ raw \in RawInputs \cup {None}
    /\ code = NoCodes
    /\ recode = NoCodes
    /\ npc = "input"
    /\ GestorIdle
    /\ BoundaryIdle
    /\ SiteIdle
    /\ BatchIdle
    /\ ToolIdle

\* every script normalises the cell value
Normalize ==
    /\ npc = "input"
    /\ code' = [s \in Scripts |-> ToUbigeo6In(s, raw)]
    /\ npc' = "normalized"
    /\ UNCHANGED <<raw, recode, gestorVars, sourceVars, bpc, mapVars, mixVars,
                   siteVars, batchVars, toolVars>>

\* every script normalises its own result again
Renormalize ==
    /\ npc = "normalized"
    /\ recode' = [s \in Scripts |-> ToUbigeo6In(s, code[s])]
    /\ npc' = "renormalized"
    /\ UNCHANGED <<raw, code, gestorVars, sourceVars, bpc, mapVars, mixVars,
                   siteVars, batchVars, toolVars>>

NextNorm == Normalize \/ Renormalize

SpecNorm == InitNorm /\ [][NextNorm]_vars

InitGestor ==
    /\ ubigeo \in UbigeoCells
    /\ competencia \in Labels \cup {None}
    /\ original = NoGestor
    /\ gestor = NoGestor
    /\ gpc = "row"
    /\ NormIdle
    /\ BoundaryIdle
    /\ SiteIdle
    /\ BatchIdle
    /\ ToolIdle

\* each pipeline ingests the row: normalised code and ubigeo_gestor
Ingest ==
    /\ gpc = "row"
    /\ original' = [p \in Pipelines |-> ToUbigeo6In(p, ubigeo)]
    /\ gestor' = [p \in Pipelines |-> GestorIn(p, ubigeo, competencia)]
    /\ gpc' = "done"
    /\ UNCHANGED <<ubigeo, competencia, normVars, sourceVars, bpc, mapVars,
                   mixVars, siteVars, batchVars, toolVars>>

NextGestor == Ingest

SpecGestor == InitGestor /\ [][NextGestor]_vars

\* main of the map scripts and of mix_ubigeo_geojson after loading: one
\* district file and two province files holding at most MaxFeats features
Init ==
    /\ \E nd \in 0..MaxFeats :
       \E n1 \in 0..(MaxFeats - nd) :
       \E n2 \in 0..(MaxFeats - nd - n1) :
       \E bd \in [1..nd -> DistProps] :
       \E b1 \in [1..n1 -> ProvProps] :
       \E b2 \in [1..n2 -> ProvProps] :
          /\ distritos_gj = FileOf("Distritos", bd, SquarePolygon)
          /\ provincias_gj_list = <<FileOf("Provincias1", b1, SquarePolygon),
                                    FileOf("Provincias2", b2, SquarePolygon)>>
    /\ siniestros_df = << <<1, 1>>, <<3, 1>> >>
    /\ bpc = "loaded"
    /\ NoOutputs
    /\ NormIdle
    /\ GestorIdle
    /\ SiteIdle
    /\ BatchIdle
    /\ ToolIdle

\* the province sources are a single Polygon feature that carries IDPROV
\* and no other code; one incident
InitIdprov ==
    /\ distritos_gj = <<>>
    /\ \E ring \in RingsDrawn :
          provincias_gj_list =
              <<FileOf("Provincias1",
                       << << <<K_IDPROV, <<"0", "6", "0", "1">> >> >> >>,
                       [type |-> "Polygon", coordinates |-> <<ring>>]),
                <<>> >>
    /\ \E pt \in Grid : siniestros_df = <<pt>>
    /\ bpc = "loaded"
    /\ NoOutputs
    /\ NormIdle
    /\ GestorIdle
    /\ SiteIdle
    /\ BatchIdle
    /\ ToolIdle

\* map_for_excel on a dataset whose first ubigeo_gestor cell is cell:
\* target code, boundary lookup, incidents inside the boundary
MapForExcel(cell) ==
    /\ bpc = "loaded"
    /\ ubigeo_gestor' = cell
    /\ target_ubi' = to_ubigeo6(cell)
    /\ LET r == ResolveBoundary(to_ubigeo6(cell), distritos_gj,
                                provincias_gj_list)
       IN /\ feats' = r.feats
          /\ consulted' = r.consulted
          /\ \E t \in BOOLEAN :
                /\ edge_tie' = t
                /\ kept' = FilterIncidents(siniestros_df, r.feats, t)
          /\ row' = IF r.feats = <<>> THEN 0 ELSE Len(siniestros_df)
    /\ bpc' = "mapped"
    /\ UNCHANGED <<normVars, gestorVars, sourceVars, mixVars, siteVars,
                   batchVars, toolVars>>

\* main of mix_ubigeo_geojson on the catalogue cat
MixMain(cat) ==
    /\ bpc = "loaded"
    /\ catalogo' = cat
    /\ LET dist == build_index_by_ubigeo(distritos_gj)
           provs == [i \in DOMAIN provincias_gj_list |->
                        build_index_by_ubigeo(provincias_gj_list[i])]
           m == merge_indexes(provs)
           order == Sorted(cat)
           entries == [i \in DOMAIN order |->
                          MixEntry(order[i], dist, m.merged)]
           Found(e) == e.found
           Missing(e) == ~e.found
       IN /\ idx_dist' = dist
          /\ prov_indexes' = provs
          /\ idx_prov' = m.merged
          /\ dups' = m.dups
          /\ mix_features' = SelectSeq(entries, Found)
          /\ skipped' = SelectSeq(entries, Missing)
    /\ bpc' = "mixed"
    /\ UNCHANGED <<normVars, gestorVars, sourceVars, mapVars, siteVars,
                   batchVars, toolVars>>

Next ==
    \/ \E cell \in GestorCells : MapForExcel(cell)
    \/ \E cat \in Catalogs : MixMain(cat)

Spec == Init /\ [][Next]_vars

NextIdprov == \E cell \in GestorCells : MapForExcel(cell)

SpecIdprov == InitIdprov /\ [][NextIdprov]_vars

\* map_for_excel after the boundary lookup, before the incident loop: either
\* a single Polygon of one ring and one incident, or up to MaxFeats features
\* of any geometry and up to MaxRows incidents
InitGeo ==
    /\ distritos_gj = <<>>
    /\ provincias_gj_list = <<>>
    /\ \/ /\ \E ring \in RingPool :
                feats = << [name |-> <<"Boundary", 1>>, properties |-> <<>>,
                           geometry |-> [type |-> "Polygon",
                                         coordinates |-> <<ring>>]] >>
          /\ \E pt \in ProbePoints : siniestros_df = <<pt>>
          /\ edge_tie \in BOOLEAN
       \/ /\ \E n \in 0..MaxFeats :
             \E gs \in [1..n -> DOMAIN Geometries] : feats = BoundaryOf(gs)
          /\ \E n \in 0..MaxRows :
                siniestros_df \in [1..n -> Incidents]
          \* the rounding matters to an incident on an edge only
          /\ edge_tie \in
                IF \E i \in DOMAIN siniestros_df :
                       siniestros_df[i] = EdgeIncident
                THEN BOOLEAN ELSE {FALSE}
    /\ bpc = "resolved"
    /\ ubigeo_gestor = None
    /\ target_ubi = None
    /\ consulted = {}
    /\ kept = <<>>
    /\ row = 0
    /\ catalogo = {}
    /\ prov_indexes = <<>>
    /\ idx_dist = EmptyDict
    /\ idx_prov = EmptyDict
    /\ dups = {}
    /\ mix_features = <<>>
    /\ skipped = <<>>
    /\ NormIdle
    /\ GestorIdle
    /\ SiteIdle
    /\ BatchIdle
    /\ ToolIdle

\* one pass of the incident loop of map_for_excel
FilterRow ==
    /\ bpc = "resolved"
    /\ feats # <<>>
    /\ row < Len(siniestros_df)
    /\ row' = row + 1
    /\ kept' = KeepIfInside(kept, siniestros_df[row + 1], feats, edge_tie)
    /\ UNCHANGED <<normVars, gestorVars, sourceVars, bpc, ubigeo_gestor,
                   target_ubi, feats, consulted, edge_tie, mixVars, siteVars,
                   batchVars, toolVars>>

\* the incident loop is over, or was not entered (no boundary, no incident)
FilterDone ==
    /\ bpc = "resolved"
    /\ feats = <<>> \/ row = Len(siniestros_df)
    /\ bpc' = "filtered"
    /\ UNCHANGED <<normVars, gestorVars, sourceVars, mapVars, mixVars,
                   siteVars, batchVars, toolVars>>

NextGeo == FilterRow \/ FilterDone

SpecGeo == InitGeo /\ [][NextGeo]_vars

\* main of build_site after ensure_dirs: the catalogue may be missing; one
\* workbook in Intersecciones/excels, none or one in
\* EstablecimientoSalud/excels
InitSite ==
    /\ catalog_exists \in BOOLEAN
    /\ catalog_df \in (IF catalog_exists THEN SiteCatalogs ELSE {<<>>})
    /\ \E name \in (IF catalog_exists THEN SiteNames ELSE {S_AAA}) :
       \E dir \in EstabDirs :
          excels = [s \in Sections |->
                       IF s = "Intersecciones" THEN {name} ELSE dir]
    /\ idx_slug = EmptyDict
    /\ idx_parts = EmptyDict
    /\ index_builds = 0
    /\ items = NoItems
    /\ pages = {}
    /\ spc = "start"
    /\ NormIdle
    /\ GestorIdle
    /\ BoundaryIdle
    /\ BatchIdle
    /\ ToolIdle

\* build_home: the home page needs no catalogue
BuildHome ==
    /\ spc = "start"
    /\ pages' = pages \cup {"index.html"}
    /\ spc' = "home"
    /\ UNCHANGED <<catalog_exists, catalog_df, excels, idx_slug, idx_parts,
                   index_builds, items>>
    /\ UNCHANGED <<normVars, gestorVars, sourceVars, bpc, mapVars, mixVars,
                   batchVars, toolVars>>

\* build_zonas: load_catalog_zonas raises FileNotFoundError without the
\* catalogue (the rows listed depend on the files of ZonasEscolares/excels,
\* which are not modelled)
BuildZonas ==
    /\ spc = "home"
    /\ IF catalog_exists
       THEN /\ pages' = pages \cup {"ZonasEscolares/index.html"}
            /\ spc' = "zonas"
       ELSE /\ pages' = pages
            /\ spc' = "aborted"
    /\ UNCHANGED <<catalog_exists, catalog_df, excels, idx_slug, idx_parts,
                   index_builds, items>>
    /\ UNCHANGED <<normVars, gestorVars, sourceVars, bpc, mapVars, mixVars,
                   batchVars, toolVars>>

\* build_inter / build_estab: the indexes are built, the folder of the
\* section is scanned and its page is written
BuildSection(section, page) ==
    /\ LET idx == _load_catalog_index(catalog_exists, catalog_df)
       IN /\ idx_slug' = idx.slug
          /\ idx_parts' = idx.parts
          /\ index_builds' = index_builds + 1
    /\ items' = [items EXCEPT ![section] =
                    load_items(catalog_exists, catalog_df, excels[section])]
    /\ pages' = pages \cup {page}
    /\ UNCHANGED <<catalog_exists, catalog_df, excels>>
    /\ UNCHANGED <<normVars, gestorVars, sourceVars, bpc, mapVars, mixVars,
                   batchVars, toolVars>>

BuildInter ==
    /\ spc = "zonas"
    /\ BuildSection("Intersecciones", "Intersecciones/index.html")
    /\ spc' = "inter"

BuildEstab ==
    /\ spc = "inter"
    /\ BuildSection("EstablecimientoSalud", "EstablecimientoSalud/index.html")
    /\ spc' = "estab"

NextSite == BuildHome \/ BuildZonas \/ BuildInter \/ BuildEstab

SpecSite == InitSite /\ [][NextSite]_vars

\* main of maps_establecimientos: any of the static inputs may be missing;
\* the excels folder holds up to three workbooks
InitBatch ==
    /\ static_files \in SUBSET StaticInputs
    /\ excel_folder \in ExcelFolders
    /\ NoBatch
    /\ mpc = "start"
    /\ NormIdle
    /\ GestorIdle
    /\ BoundaryIdle
    /\ SiteIdle
    /\ ToolIdle

\* main up to the loop: the asserts on the static inputs, the loads, the
\* scan of the folder
Startup ==
    /\ mpc = "start"
    /\ IF static_files # StaticInputs
       THEN /\ mpc' = "aborted"
            /\ UNCHANGED <<sourceVars, excel_files>>
       ELSE /\ distritos_gj' = BatchDistritos
            /\ provincias_gj_list' = BatchProvincias
            /\ siniestros_df' = BatchSiniestros
            /\ excel_files' = Sorted(DOMAIN excel_folder)
            /\ mpc' = IF DOMAIN excel_folder = {} THEN "done" ELSE "loop"
    /\ UNCHANGED <<static_files, excel_folder, attempts, generated, errors,
                   puntos, saved, index_items>>
    /\ UNCHANGED <<normVars, gestorVars, bpc, mapVars, mixVars, siteVars, toolVars>>

\* one pass of the loop of main: map_for_excel on the next workbook inside
\* try/except
ProcessNext ==
    /\ mpc = "loop"
    /\ Len(attempts) < Len(excel_files)
    /\ LET x == excel_files[Len(attempts) + 1]
           wb == Workbooks[excel_folder[x]]
           outcome == Outcome(wb)
           after == AfterAttempt(generated, errors, x, outcome)
           cell == FirstGestorCell(wb)
           r == ResolveBoundary(to_ubigeo6(cell), distritos_gj,
                                provincias_gj_list)
       IN /\ attempts' = Append(attempts, x)
          /\ generated' = after.generated
          /\ errors' = after.errors
          /\ mpc' = IF after.go_on THEN "loop" ELSE "aborted"
          /\ IF outcome = "ok"
             THEN /\ ubigeo_gestor' = cell
                  /\ target_ubi' = to_ubigeo6(cell)
                  /\ feats' = r.feats
                  /\ consulted' = r.consulted
                  /\ puntos' = DrawnPoints(wb)
                  \* no incident of BatchSiniestros lies on an edge
                  /\ kept' = FilterIncidents(siniestros_df, r.feats, FALSE)
                  /\ row' = IF r.feats = <<>> THEN 0 ELSE Len(siniestros_df)
                  /\ saved' = saved \cup {x}
             ELSE /\ ubigeo_gestor' = None
                  /\ target_ubi' = None
                  /\ feats' = <<>>
                  /\ consulted' = {}
                  /\ puntos' = <<>>
                  /\ kept' = <<>>
                  /\ row' = 0
                  /\ saved' = saved
    /\ UNCHANGED <<static_files, excel_folder, excel_files, index_items,
                   edge_tie>>
    /\ UNCHANGED <<normVars, gestorVars, sourceVars, bpc, mixVars, siteVars, toolVars>>

\* after the loop: write_index when a map was generated
Finish ==
    /\ mpc = "loop"
    /\ Len(attempts) = Len(excel_files)
    /\ index_items' = generated
    /\ mpc' = "done"
    /\ UNCHANGED <<static_files, excel_folder, excel_files, attempts,
                   generated, errors, puntos, saved>>
    /\ UNCHANGED <<normVars, gestorVars, sourceVars, bpc, mapVars, mixVars,
                   siteVars, toolVars>>

NextBatch == Startup \/ ProcessNext \/ Finish

SpecBatch == InitBatch /\ [][NextBatch]_vars

(***************************************************************************)
(* SpecSearch: the search bar of a generated map page                      *)
(***************************************************************************)

InitSearch ==
    /\ markers \in MarkerLists
    /\ q_name = <<>>
    /\ q_code = <<>>
    /\ highlighted = NoHighlights
    /\ upc = "loaded"
    /\ NormIdle
    /\ GestorIdle
    /\ BoundaryIdle
    /\ SiteIdle
    /\ BatchIdle
    /\ MeasureIdle
    /\ FlagIdle
    /\ SplitIdle

\* the user edits the two inputs
TypeQuery ==
    /\ upc # "idle"
    /\ \E qn \in Queries, qc \in Queries :
          /\ <<qn, qc>> # <<q_name, q_code>>
          /\ q_name' = qn
          /\ q_code' = qc
    /\ upc' = "typed"
    /\ UNCHANGED <<markers, highlighted>>
    /\ UNCHANGED <<normVars, gestorVars, sourceVars, bpc, mapVars, mixVars,
                   siteVars, batchVars, notSearch>>

\* click on 'Buscar' (or Enter in a field): searchAndHighlight
Buscar ==
    /\ upc # "idle"
    /\ highlighted' =
          [map \in SearchMaps |->
              searchAndHighlight(map, markers, q_name, q_code)]
    /\ upc' = "searched"
    /\ UNCHANGED <<markers, q_name, q_code>>
    /\ UNCHANGED <<normVars, gestorVars, sourceVars, bpc, mapVars, mixVars,
                   siteVars, batchVars, notSearch>>

\* click on 'Limpiar': both inputs emptied, clearHighlights
Limpiar ==
    /\ upc # "idle"
    /\ q_name' = <<>>
    /\ q_code' = <<>>
    /\ highlighted' = NoHighlights
    /\ upc' = "cleared"
    /\ UNCHANGED markers
    /\ UNCHANGED <<normVars, gestorVars, sourceVars, bpc, mapVars, mixVars,
                   siteVars, batchVars, notSearch>>

NextSearch == TypeQuery \/ Buscar \/ Limpiar

SpecSearch == InitSearch /\ [][NextSearch]_vars

(***************************************************************************)
(* SpecMeasure: the distance tool of a generated intersections map         *)
(***************************************************************************)

InitMeasure ==
    /\ MeasureIdle
    /\ NormIdle
    /\ GestorIdle
    /\ BoundaryIdle
    /\ SiteIdle
    /\ BatchIdle
    /\ SearchIdle
    /\ FlagIdle
    /\ SplitIdle

\* click on btn_measure_toggle: toggleMeasure
ToggleMeasure ==
    /\ measuring' = ~measuring
    /\ IF measuring
       THEN /\ map_layers' = clearMeasure(mA, mB, mLine, map_layers)
            /\ mA' = null
            /\ mB' = null
            /\ mLine' = NoLine
       ELSE UNCHANGED <<mA, mB, mLine, map_layers>>
    /\ clicks' = 0
    /\ UNCHANGED <<normVars, gestorVars, sourceVars, bpc, mapVars, mixVars,
                   siteVars, batchVars, notMeasure>>

\* click on the map at ev.latlng
MapClick ==
    \E latlng \in LatLngs :
        /\ IF ~measuring
           THEN UNCHANGED measureVars
           ELSE LET a == IF mA = null THEN latlng ELSE mA
                    b == IF mA = null THEN mB ELSE latlng
                    placed == IF mA = null THEN addTo(map_layers, "Punto A")
                              ELSE IF mB = null
                              THEN addTo(map_layers, "Punto B")
                              ELSE map_layers
                    u == updateMeasure(a, b, mLine, placed)
                IN /\ mA' = a
                   /\ mB' = b
                   /\ mLine' = u.mLine
                   /\ map_layers' = u.map_layers
                   /\ clicks' = IF clicks < 3 THEN clicks + 1 ELSE clicks
                   /\ UNCHANGED measuring
        /\ UNCHANGED <<normVars, gestorVars, sourceVars, bpc, mapVars,
                       mixVars, siteVars, batchVars, notMeasure>>

\* a marker on the map is dragged to latlng: its 'drag' handler is
\* updateMeasure
DragMarker ==
    \E title \in {"Punto A", "Punto B"}, latlng \in LatLngs :
        /\ map_layers[title] > 0
        /\ LET a == IF title = "Punto A" THEN latlng ELSE mA
               b == IF title = "Punto B" THEN latlng ELSE mB
               u == updateMeasure(a, b, mLine, map_layers)
           IN /\ mA' = a
              /\ mB' = b
              /\ mLine' = u.mLine
              /\ map_layers' = u.map_layers
        /\ UNCHANGED <<measuring, clicks>>
        /\ UNCHANGED <<normVars, gestorVars, sourceVars, bpc, mapVars,
                       mixVars, siteVars, batchVars, notMeasure>>

NextMeasure == ToggleMeasure \/ MapClick \/ DragMarker

SpecMeasure == InitMeasure /\ [][NextMeasure]_vars

(***************************************************************************)
(* SpecFlag: one mantenimiento cell coerced at ingestion and at map time   *)
(***************************************************************************)

InitFlag ==
    /\ flag_cell \in FlagCells
    /\ flag_ingest = <<>>
    /\ flag_map = <<>>
    /\ fpc = "raw"
    /\ NormIdle
    /\ GestorIdle
    /\ BoundaryIdle
    /\ SiteIdle
    /\ BatchIdle
    /\ SearchIdle
    /\ MeasureIdle
    /\ SplitIdle

\* the cell goes through to_bool (clean_df of process_colegios) and through
\* to_bool_soft (the marker loop of maps_from_excels)
Coerce ==
    /\ fpc = "raw"
    /\ flag_ingest' = <<to_bool(flag_cell)>>
    /\ flag_map' = <<to_bool_soft(flag_cell)>>
    /\ fpc' = "coerced"
    /\ UNCHANGED flag_cell
    /\ UNCHANGED <<normVars, gestorVars, sourceVars, bpc, mapVars, mixVars,
                   siteVars, batchVars, notFlag>>

NextFlag == Coerce

SpecFlag == InitFlag /\ [][NextFlag]_vars

(***************************************************************************)
(* SpecSplit: the catalogue is built, the three splitting scripts run,     *)
(* build_site lists the workbooks                                          *)
(***************************************************************************)

InitSplit ==
    /\ muni_file \in MuniFiles
    /\ input_table \in InputTables
    /\ astype_missing \in MissingTexts
    /\ hierarchy \in BOOLEAN
    /\ NotSplitYet
    /\ xpc = "start"
    /\ NormIdle
    /\ GestorIdle
    /\ BoundaryIdle
    /\ SiteIdle
    /\ BatchIdle
    /\ SearchIdle
    /\ MeasureIdle
    /\ FlagIdle

\* main of municipalidades_build
BuildCatalogue ==
    /\ xpc = "start"
    /\ muni_catalog' = BuildCatalog(muni_file)
    /\ xpc' = "catalogued"
    /\ UNCHANGED <<muni_file, input_table, astype_missing, hierarchy,
                   exports, split_done, scanned>>
    /\ UNCHANGED <<normVars, gestorVars, sourceVars, bpc, mapVars, mixVars,
                   siteVars, batchVars, notSplit>>

\* one run of a splitting script on the ingested table
RunSplit ==
    /\ xpc = "catalogued"
    /\ \E script \in Splitters \ split_done :
          /\ exports' = [exports EXCEPT ![script] =
                            RunSplitter(script, input_table, muni_catalog,
                                        astype_missing, hierarchy)]
          /\ split_done' = split_done \cup {script}
    /\ UNCHANGED <<muni_file, input_table, astype_missing, hierarchy,
                   muni_catalog, scanned, xpc>>
    /\ UNCHANGED <<normVars, gestorVars, sourceVars, bpc, mapVars, mixVars,
                   siteVars, batchVars, notSplit>>

\* build_site after the splitting scripts: _load_catalog_index and the
\* catalogue lookup of _scan_items_generic for the workbooks of each folder
\* (the order of the items is not kept)
ScanWorkbooks ==
    /\ xpc = "catalogued"
    /\ split_done = Splitters
    /\ LET idx == _load_catalog_index(TRUE, muni_catalog)
       IN scanned' =
              [script \in SplitScripts |->
                  {ScanItem(path[Len(path)], idx.slug, idx.parts) :
                      path \in DOMAIN exports[script].files}]
    /\ xpc' = "scanned"
    /\ UNCHANGED <<muni_file, input_table, astype_missing, hierarchy,
                   muni_catalog, exports, split_done>>
    /\ UNCHANGED <<normVars, gestorVars, sourceVars, bpc, mapVars, mixVars,
                   siteVars, batchVars, notSplit>>

NextSplit == BuildCatalogue \/ RunSplit \/ ScanWorkbooks

SpecSplit == InitSplit /\ [][NextSplit]_vars

(***************************************************************************)
(* Claims on the code normaliser (SpecNorm)                                *)
(***************************************************************************)

\* C1: to_ubigeo6 is idempotent: whenever a script's normaliser returns a
\* code c for a raw input, normalising c again returns exactly c.
C1_Idempotent ==
    npc = "renormalized" =>
        \A s \in Scripts : code[s] # None => recode[s] = code[s]

\* C1 witness: a blank-padded, float-formatted input ("101.0" between
\* blanks) was changed by the first pass of every script, the two families of
\* normaliser read it differently, and every script has renormalised it.
C1_Witness ==
    /\ npc = "renormalized"
    /\ raw # None
    /\ raw # Strip(raw)
    /\ EndsWith(Strip(raw), <<".", "0">>)
    /\ \A s \in Scripts : code[s] # None /\ code[s] # raw
    /\ \E s1, s2 \in Scripts : code[s1] # code[s2]

HasDigit(x) == x # None /\ \E i \in DOMAIN x : IsDigit(x[i])

IsSixAsciiDigits(c) ==
    /\ c # None
    /\ Len(c) = UbigeoLen
    /\ \A i \in DOMAIN c : c[i] \in AsciiDigits

\* C2: for every raw input to_ubigeo6 returns absent or exactly six ASCII
\* digits, and it returns absent exactly when the input contains no digit.
C2_SixAsciiDigitsOrAbsent ==
    npc # "input" =>
        \A s \in Scripts :
            /\ code[s] = None \/ IsSixAsciiDigits(code[s])
            /\ code[s] = None <=> ~HasDigit(raw)

\* C3: every script's normaliser applies the same four steps (strip one
\* trailing ".0", keep the digits, left-pad to 6, truncate to 6), so every
\* script returns what these steps (to_ubigeo6 of the map scripts) return.
C3_SameFourStepsEverywhere ==
    npc # "input" =>
        \A s \in Scripts : code[s] = to_ubigeo6(raw)

(***************************************************************************)
(* Claims on the governance-level resolver (SpecGestor)                    *)
(***************************************************************************)

\* the label, lowercased and accent-stripped, contains a province token
IndicatesProvince(label) == \E k \in ProvTokens : Contains(norm(label), k)

\* C4: a supplied label containing "provincial", "provincia", "provinc" or
\* "prov" anywhere (after lowercasing and accent stripping) resolves to
\* Province in every ingestion pipeline, so all pipelines give the same
\* governing code for the same (code, label) pair.
C4_TokenAnywhereInEveryPipeline ==
    gpc = "done" =>
        /\ \A p \in Pipelines :
              (original[p] # None /\ IndicatesProvince(competencia))
                  => gestor[p] = ProvinceCodeOf(original[p])
        /\ \A p, q \in Pipelines : gestor[p] = gestor[q]

\* the level a pipeline resolves for the row is Province
ResolvedProvince(p) ==
    IF p = "process_colegios"
    THEN StartsWith(norm(competencia), <<"p", "r", "o", "v", "i", "n", "c">>)
    ELSE IndicatesProvince(competencia)

\* C5: when a pipeline resolves the level to Province the governing code is
\* the first four digits of the normalised code followed by "01", six digits
\* long; when the label does not indicate Province it is the normalised code
\* unchanged. A Province-labelled row of the splitting scripts therefore
\* ends in "01" and keeps its department and province digits.
C5_GoverningCode ==
    gpc = "done" =>
        \A p \in Pipelines :
            original[p] # None =>
                /\ ResolvedProvince(p) =>
                      /\ gestor[p] = SubSeq(original[p], 1, 4) \o <<"0", "1">>
                      /\ Len(gestor[p]) = UbigeoLen
                /\ ~IndicatesProvince(competencia) => gestor[p] = original[p]
                /\ (p \in SplitScripts /\ IndicatesProvince(competencia)) =>
                      /\ SubSeq(gestor[p], 1, 4) = SubSeq(original[p], 1, 4)
                      /\ SubSeq(gestor[p], 5, 6) = <<"0", "1">>

\* C5 witness: code "060102" labelled "Provincial" became "060101" in a
\* splitting script.
C5_Witness ==
    /\ gpc = "done"
    /\ ubigeo = <<"0", "6", "0", "1", "0", "2">>
    /\ competencia = <<"P", "r", "o", "v", "i", "n", "c", "i", "a", "l">>
    /\ gestor["split_intersecciones_to_excels"]
           = <<"0", "6", "0", "1", "0", "1">>

(***************************************************************************)
(* Claims on the boundary lookup (Spec, SpecIdprov)                        *)
(***************************************************************************)

ProvFileNames == {"Provincias1", "Provincias2"}

\* C6: the boundary source is chosen by the suffix of the governing code
\* alone: "01" searches the province files, anything else the district
\* file; never both, and a miss is not retried in the other source (map
\* scripts and mix_ubigeo_geojson alike).
C6_SourceBySuffix ==
    /\ (bpc = "mapped" /\ target_ubi # None) =>
          LET prov == EndsWith(target_ubi, <<"0", "1">>)
          IN /\ consulted = IF prov THEN {"provincias"} ELSE {"distritos"}
             /\ \A i \in DOMAIN feats :
                   IF prov THEN feats[i].name[1] \in ProvFileNames
                   ELSE feats[i].name[1] = "Distritos"
    /\ bpc = "mixed" =>
          /\ \A i \in DOMAIN mix_features :
                LET e == mix_features[i]
                IN IF EndsWith(e.ubigeo, <<"0", "1">>)
                   THEN e.source = "provincias" /\ e.feat.name[1] \in ProvFileNames
                   ELSE e.source = "distritos" /\ e.feat.name[1] = "Distritos"
          /\ \A u \in catalogo :
                (\E i \in DOMAIN mix_features : mix_features[i].ubigeo = u)
                    <=> (u \in DOMAIN (IF EndsWith(u, <<"0", "1">>)
                                       THEN idx_prov ELSE idx_dist))

\* C6 witness: the target "060101" missed in the province files and the
\* district file, which holds a feature with that very code, was not tried.
C6_Witness ==
    /\ bpc = "mapped"
    /\ target_ubi = C060101
    /\ consulted = {"provincias"}
    /\ feats = <<>>
    /\ \E i \in DOMAIN distritos_gj :
          to_ubigeo6(PropsGet(distritos_gj[i].properties, K_IDDIST)) = C060101

\* some property named *ubigeo* has a normalisable value
HasUsableUbigeo(feat) ==
    \E i \in DOMAIN feat.properties :
        /\ Contains(Lower(feat.properties[i][1]), UbigeoWord)
        /\ to_ubigeo6(feat.properties[i][2]) # None

\* C7: a province feature with a usable *ubigeo* property is matched only
\* by that value; its IDPROV is consulted only when it has no such
\* property, so no returned feature has a usable ubigeo that differs from
\* the target.
C7_UbigeoBeforeIdprov ==
    (bpc = "mapped" /\ consulted = {"provincias"}) =>
        \A i \in DOMAIN feats :
            HasUsableUbigeo(feats[i]) => MatchesByUbigeo(feats[i], target_ubi)

\* the code under which mix_ubigeo_geojson indexes a feature
MixKeyOf(feat) ==
    IF pick_ubigeo_key(feat.properties) = None THEN None
    ELSE to_ubigeo6(PropsGet(feat.properties, pick_ubigeo_key(feat.properties)))

\* the last element of a sequence satisfying a keyed test
LastKeyed(features, Key(_), u) ==
    features[CHOOSE j \in DOMAIN features :
                /\ Key(features[j]) = u
                /\ \A k \in DOMAIN features : Key(features[k]) = u => k <= j]

FilesWith(u) ==
    {i \in DOMAIN provincias_gj_list :
        \E j \in DOMAIN provincias_gj_list[i] :
            MixKeyOf(provincias_gj_list[i][j]) = u}

\* C8: merging the province files in order keeps, for every code, the
\* feature of the last file that has it; duplicates never stop the merge,
\* and the reported count is the number of codes found in more than one
\* file (exactly 1 for two files sharing exactly one code).
C8_LastFileWins ==
    bpc = "mixed" =>
        LET all == Flatten(provincias_gj_list)
            keys == {MixKeyOf(all[j]) : j \in DOMAIN all} \ {None}
        IN /\ DOMAIN idx_prov = keys
           /\ \A u \in keys : idx_prov[u] = LastKeyed(all, MixKeyOf, u)
           /\ dups = {u \in keys : Cardinality(FilesWith(u)) > 1}

\* C8 witness: both province files hold the code "060101" and no other
\* shared code; the second file's feature is kept and one collision is
\* counted.
C8_Witness ==
    /\ bpc = "mixed"
    /\ FilesWith(C060101) = {1, 2}
    /\ idx_prov[C060101].name[1] = "Provincias2"
    /\ idx_prov[C060101].properties
           # provincias_gj_list[1][Len(provincias_gj_list[1])].properties
    /\ Cardinality(dups) = 1

IddistKeyOf(feat) == to_ubigeo6(PropsGet(feat.properties, K_IDDIST))

\* C9: the district index is keyed by the normalised IDDIST and keeps, for
\* a code carried by several features, the last one only, in the map
\* scripts and in mix_ubigeo_geojson.
C9_DistrictLastWriteWins ==
    LET keys == {IddistKeyOf(distritos_gj[j]) : j \in DOMAIN distritos_gj}
                    \ {None}
    IN /\ (bpc = "mapped" /\ consulted = {"distritos"}) =>
             feats = IF target_ubi \in keys
                     THEN <<LastKeyed(distritos_gj, IddistKeyOf, target_ubi)>>
                     ELSE <<>>
       /\ bpc = "mixed" =>
             /\ DOMAIN idx_dist = keys
             /\ \A u \in keys :
                   idx_dist[u] = LastKeyed(distritos_gj, IddistKeyOf, u)

\* vertices of a ring without the repeated closing vertex
OpenRing(r) ==
    IF Len(r) > 1 /\ r[Len(r)] = r[1] THEN SubSeq(r, 1, Len(r) - 1) ELSE r

\* pt is strictly on the same side of every edge of the convex ring
StrictlyInside(pt, ring) ==
    LET r == OpenRing(ring)
        n == Len(r)
    IN \/ \A i \in 1..n : Cross(r[i], r[(i % n) + 1], pt) > 0
       \/ \A i \in 1..n : Cross(r[i], r[(i % n) + 1], pt) < 0

RECURSIVE SumCoord(_, _)
SumCoord(r, c) == IF r = <<>> THEN 0 ELSE Head(r)[c] + SumCoord(Tail(r), c)

\* pt is the mean of the ring's vertices
IsCentroid(pt, ring) ==
    LET r == OpenRing(ring)
    IN /\ Len(r) * pt[1] = SumCoord(r, 1)
       /\ Len(r) * pt[2] = SumCoord(r, 2)

\* C10: with a single Polygon province feature whose only code property is
\* IDPROV = "0601", a Province-level lookup of a governing code starting
\* "0601" returns that feature, and an incident strictly inside it (such
\* as its centroid) is reported as contained.
C10_IdprovFallbackContains ==
    (/\ bpc = "mapped"
     /\ target_ubi # None
     /\ EndsWith(target_ubi, <<"0", "1">>)
     /\ Prefix(target_ubi, 4) = <<"0", "6", "0", "1">>) =>
        /\ feats = provincias_gj_list[1]
        /\ \A i \in DOMAIN siniestros_df :
              StrictlyInside(siniestros_df[i],
                             provincias_gj_list[1][1].geometry.coordinates[1])
                  => \E k \in DOMAIN kept : kept[k] = siniestros_df[i]

\* C10 witness: the closed square (0,0),(2,0),(2,2),(0,2) was found for
\* "060101" through IDPROV and its centroid (1,1) was kept.
C10_Witness ==
    /\ bpc = "mapped"
    /\ ubigeo_gestor = C060101
    /\ Len(feats) = 1
    /\ feats[1].geometry.coordinates[1] = SquareRing
    /\ siniestros_df = << <<1, 1>> >>
    /\ IsCentroid(siniestros_df[1], SquareRing)
    /\ kept = siniestros_df

(***************************************************************************)
(* Claims on the containment engine and the incident filter (SpecGeo)      *)
(***************************************************************************)

\* the eastward horizontal ray from pt meets the segment a-b, for pt level
\* with neither end: the ends lie on both sides of the ray's line and pt is
\* to the left of the segment read upwards
RayCrosses(pt, a, b) ==
    LET lo == IF a[2] < b[2] THEN a ELSE b
        hi == IF a[2] < b[2] THEN b ELSE a
    IN /\ lo[2] < pt[2]
       /\ pt[2] < hi[2]
       /\ Cross(lo, hi, pt) > 0

\* pt lies on the segment a-b
OnSegment(pt, a, b) ==
    /\ Cross(a, b, pt) = 0
    /\ (a[1] <= pt[1] /\ pt[1] <= b[1]) \/ (b[1] <= pt[1] /\ pt[1] <= a[1])
    /\ (a[2] <= pt[2] /\ pt[2] <= b[2]) \/ (b[2] <= pt[2] /\ pt[2] <= a[2])

\* pt lies on an edge of the ring, the closing edge included
OnRing(pt, ring) ==
    \E i \in DOMAIN ring :
        OnSegment(pt, ring[i], ring[(i % Len(ring)) + 1])

LevelWithVertex(pt, ring) == \E i \in DOMAIN ring : ring[i][2] = pt[2]

\* the ray from pt meets an odd number of edges, the closing edge included
OddCrossings(pt, ring) ==
    Cardinality({i \in DOMAIN ring :
                    RayCrosses(pt, ring[i], ring[(i % Len(ring)) + 1])}) % 2 = 1

\* the incident pt was drawn on the map. The claims below are stated of
\* the row the loop has just visited, siniestros_df[row]: every row is that
\* row in one state of the run.
Kept(pt) == \E k \in DOMAIN kept : kept[k] = pt

\* the boundary is one Polygon feature of one ring
SingleRing ==
    /\ Len(feats) = 1
    /\ feats[1].geometry.type = "Polygon"
    /\ Len(feats[1].geometry.coordinates) = 1

\* C11: _point_in_ring is the even-odd rule: for a point on no edge and
\* level with no vertex the result is true iff the eastward ray from the
\* point meets an odd number of the ring's edges, the closing edge from the
\* last vertex to the first included; for the ring (0,0),(1,0),(1,1),(0,1)
\* the point (0.5,0.5) is inside and (2,2) is outside (coordinates doubled
\* here).
C11_EvenOdd ==
    /\ SingleRing =>
          LET ring == feats[1].geometry.coordinates[1]
          IN row > 0 =>
                LET pt == siniestros_df[row]
                IN (~OnRing(pt, ring) /\ ~LevelWithVertex(pt, ring)) =>
                      (Kept(pt) <=> OddCrossings(pt, ring))
    /\ point_in_ring(1, 1, Twice(UnitRing), edge_tie)
    /\ ~point_in_ring(4, 4, Twice(UnitRing), edge_tie)

\* C11 witness: the incident (1,1) was tested against the open square
\* (0,0),(2,0),(2,2),(0,2), whose closing edge the ray crosses, and kept.
C11_Witness ==
    /\ bpc = "filtered"
    /\ SingleRing
    /\ feats[1].geometry.coordinates[1] = Twice(UnitRing)
    /\ siniestros_df = << <<1, 1>> >>
    /\ row = 1
    /\ kept = << <<1, 1>> >>

\* the boundary is one Polygon feature
SinglePolygon == Len(feats) = 1 /\ feats[1].geometry.type = "Polygon"

\* pt is on no edge and level with no vertex of any of the rings
ClearOf(pt, rings) ==
    \A h \in DOMAIN rings :
        ~OnRing(pt, rings[h]) /\ ~LevelWithVertex(pt, rings[h])

\* C12: point_in_polygon is true iff the point is inside the first
\* (exterior) ring and inside none of the remaining (hole) rings, inside
\* being what _point_in_ring returns and, away from the edges, the even-odd
\* rule; a point inside a hole is outside although inside the exterior
\* ring, and a polygon without rings contains no point.
C12_ExteriorMinusHoles ==
    /\ SinglePolygon =>
          LET rings == feats[1].geometry.coordinates
          IN row > 0 =>
                LET pt == siniestros_df[row]
                IN /\ Kept(pt) <=>
                         /\ rings # <<>>
                         /\ point_in_ring(pt[1], pt[2], rings[1], edge_tie)
                         /\ \A h \in 2..Len(rings) :
                               ~point_in_ring(pt[1], pt[2], rings[h],
                                              edge_tie)
                   /\ ClearOf(pt, rings) =>
                         (Kept(pt) <=>
                             /\ rings # <<>>
                             /\ OddCrossings(pt, rings[1])
                             /\ \A h \in 2..Len(rings) :
                                   ~OddCrossings(pt, rings[h]))
    /\ \A pt \in Incidents : ~point_in_polygon(pt[1], pt[2], <<>>, edge_tie)

\* C12 witness: against the square (0,0)-(4,4) with the hole (0,0)-(2,2) the
\* incident (1,1), inside both rings, was dropped and (3,3) was kept.
C12_Witness ==
    /\ bpc = "filtered"
    /\ SinglePolygon
    /\ feats[1].geometry.coordinates = <<BigRing, SquareRing>>
    /\ siniestros_df = << <<1, 1>>, <<3, 3>> >>
    /\ point_in_ring(1, 1, BigRing, edge_tie)
    /\ point_in_ring(1, 1, SquareRing, edge_tie)
    /\ kept = << <<3, 3>> >>

\* the feature contains pt: a Polygon per point_in_polygon, a MultiPolygon
\* when one of its polygons does
FeatureContains(feat, pt) ==
    CASE feat.geometry.type = "Polygon" ->
            point_in_polygon(pt[1], pt[2], feat.geometry.coordinates,
                             edge_tie)
      [] feat.geometry.type = "MultiPolygon" ->
            \E k \in DOMAIN feat.geometry.coordinates :
                point_in_polygon(pt[1], pt[2], feat.geometry.coordinates[k],
                                 edge_tie)
      [] OTHER -> FALSE

\* the even-odd rule on the exterior ring minus the hole rings
InsidePolygon(pt, rings) ==
    /\ rings # <<>>
    /\ OddCrossings(pt, rings[1])
    /\ \A h \in 2..Len(rings) : ~OddCrossings(pt, rings[h])

\* the features in another order
Reorderings(s) ==
    {[i \in DOMAIN s |-> s[p[i]]] :
        p \in {q \in [DOMAIN s -> DOMAIN s] :
                  \A i, j \in DOMAIN s : q[i] = q[j] => i = j}}

\* C13: point_in_features is true iff at least one feature of the list
\* contains the point, a Polygon per point_in_polygon and a MultiPolygon when
\* at least one of its polygons does; the result is the same for every
\* order of the features.
C13_AnyFeature ==
    row > 0 =>
        LET pt == siniestros_df[row]
        IN /\ Kept(pt) <=> \E f \in DOMAIN feats : FeatureContains(feats[f], pt)
           /\ \A other \in Reorderings(feats) :
                 point_in_features(pt[1], pt[2], other, edge_tie) = Kept(pt)
           /\ (\A f \in DOMAIN feats :
                  /\ feats[f].geometry.type = "Polygon" =>
                        ClearOf(pt, feats[f].geometry.coordinates)
                  /\ feats[f].geometry.type = "MultiPolygon" =>
                        \A k \in DOMAIN feats[f].geometry.coordinates :
                            ClearOf(pt, feats[f].geometry.coordinates[k]))
              => (Kept(pt) <=>
                    \E f \in DOMAIN feats :
                        \/ /\ feats[f].geometry.type = "Polygon"
                           /\ InsidePolygon(pt, feats[f].geometry.coordinates)
                        \/ /\ feats[f].geometry.type = "MultiPolygon"
                           /\ \E k \in DOMAIN feats[f].geometry.coordinates :
                                 InsidePolygon(
                                     pt, feats[f].geometry.coordinates[k]))

\* C13 witness: a Polygon and a MultiPolygon; the incident (3,3) lies in
\* the last polygon of the MultiPolygon only, (1,1) in the Polygon, and both
\* were kept.
C13_Witness ==
    /\ bpc = "filtered"
    /\ Len(feats) = 2
    /\ feats[1].geometry.type = "Polygon"
    /\ feats[2].geometry.type = "MultiPolygon"
    /\ siniestros_df = << <<3, 3>>, <<1, 1>> >>
    /\ ~FeatureContains(feats[1], <<3, 3>>)
    /\ FeatureContains(feats[1], <<1, 1>>)
    /\ kept = siniestros_df

\* point_in_features is true of the incident against the resolved boundary
InsideBoundary(pt) == point_in_features(pt[1], pt[2], feats, edge_tie)

\* C14: the incident filter keeps exactly the incidents for which
\* point_in_features is true against the resolved boundary, in their
\* original order, none added and none twice; with an empty boundary no
\* incident is kept, whatever the incident pool, and the run goes on.
C14_FilterExact ==
    /\ kept = SelectSeq(SubSeq(siniestros_df, 1, row), InsideBoundary)
    /\ bpc = "filtered" =>
          kept = IF feats = <<>> THEN <<>>
                 ELSE SelectSeq(siniestros_df, InsideBoundary)
    /\ feats = <<>> => (row = 0 /\ kept = <<>>)
    /\ bpc = "resolved" => ENABLED NextGeo

\* C14 witness: of the incidents (5,5), (1,1) the second only lies in the
\* boundary and is the one kept.
C14_Witness ==
    /\ bpc = "filtered"
    /\ feats # <<>>
    /\ siniestros_df = << <<5, 5>>, <<1, 1>> >>
    /\ ~InsideBoundary(<<5, 5>>)
    /\ row = 2
    /\ kept = << <<1, 1>> >>

\* the feature's geometry is neither Polygon nor MultiPolygon, or is
\* missing, or has no coordinates
NotAnArea(feat) ==
    \/ feat.geometry.type \notin {"Polygon", "MultiPolygon"}
    \/ feat.geometry.coordinates = <<>>

IsArea(feat) == ~NotAnArea(feat)

\* C20: a feature whose geometry is neither Polygon nor MultiPolygon, or is
\* missing or without coordinates, matches no point and stops nothing:
\* point_in_features gives what it gives on the remaining features alone.
C20_OtherGeometryIgnored ==
    row > 0 =>
        LET pt == siniestros_df[row]
        IN /\ Kept(pt) <=>
                 point_in_features(pt[1], pt[2], SelectSeq(feats, IsArea),
                                   edge_tie)
           /\ (\A f \in DOMAIN feats : NotAnArea(feats[f])) => ~Kept(pt)
           /\ \A f \in DOMAIN feats :
                 NotAnArea(feats[f]) =>
                     ~point_in_features(pt[1], pt[2], <<feats[f]>>, edge_tie)

\* C20 witness: the boundary is a feature without geometry followed by the
\* square; the incident (1,1) was kept because of the square.
C20_Witness ==
    /\ bpc = "filtered"
    /\ Len(feats) = 2
    /\ feats[1].geometry = NoGeometry
    /\ feats[2].geometry = SquarePolygon
    /\ siniestros_df = << <<1, 1>>, <<1, 1>> >>
    /\ kept = siniestros_df

(***************************************************************************)
(* Claims on the code recovered from a workbook name (SpecSite)            *)
(***************************************************************************)

\* what is left of s after its first n hyphens
RECURSIVE AfterHyphens(_, _)
AfterHyphens(s, n) ==
    IF n = 0 \/ s = <<>> THEN s
    ELSE AfterHyphens(Tail(s), IF Head(s) = "-" THEN n - 1 ELSE n)

\* the number of hyphens of s
Hyphens(s) == LET IsHyphen(c) == c = "-" IN Len(SelectSeq(s, IsHyphen))

\* the three name parts when only the first two hyphens delimit
NameParts(name) ==
    LET parts == Split(name, "-")
    IN [dep |-> parts[1],
        prov |-> IF Hyphens(name) > 0 THEN parts[2] ELSE <<>>,
        dist |-> IF Hyphens(name) > 1 THEN AfterHyphens(name, 2) ELSE <<>>]

\* a name part lowercased and stripped of spaces and underscores
KeyPart(s) ==
    LET Stays(c) == c \notin {" ", "_"} IN SelectSeq(Lower(s), Stays)

\* the items written so far, of every section
AllItems == UNION {{items[s][i] : i \in DOMAIN items[s]} : s \in Sections}

\* C15: the code of an item is the slug index entry of its lowercased name
\* when there is one; otherwise the parts index entry of the key made of its
\* three name parts (only the first two hyphens delimit), each lowercased
\* and stripped of spaces and underscores, joined with "|"; otherwise empty
C15_SlugThenParts ==
    \A it \in AllItems :
        LET p == NameParts(it.name)
            key == KeyPart(p.dep) \o <<"|">> \o KeyPart(p.prov) \o <<"|">>
                       \o KeyPart(p.dist)
        IN it.data_ubi =
              IF Lower(it.name) \in DOMAIN idx_slug
              THEN idx_slug[Lower(it.name)]
              ELSE IF key \in DOMAIN idx_parts THEN idx_parts[key]
              ELSE <<>>

\* C16: for a name with more than two hyphens the district of the item is
\* everything after the second hyphen
C16_DistrictIsRemainder ==
    \A it \in AllItems :
        Hyphens(it.name) > 2 =>
            /\ it.data_dep = NameParts(it.name).dep
            /\ it.data_prov = NameParts(it.name).prov
            /\ it.data_dist = AfterHyphens(it.name, 2)

(***************************************************************************)
(* Claims on the batch of maps_establecimientos and on missing inputs      *)
(* (SpecBatch, SpecSite)                                                   *)
(***************************************************************************)

\* the workbook stored under name x
BookOf(x) == Workbooks[excel_folder[x]]

\* the rows of a workbook with a parsable latitude and longitude
Located(wb) ==
    LET Both(r) == r.latitud # NaN /\ r.longitud # NaN
    IN SelectSeq(wb.rows, Both)

\* a workbook map_for_excel cannot map: unreadable, a coordinate column
\* missing, or no row with parsable coordinates
Fails(wb) ==
    \/ ~wb.readable
    \/ \E c \in {H_latitud, H_longitud} :
           \A h \in wb.headers : Lower(Strip(h)) # c
    \/ Located(wb) = <<>>

\* a sequence of names in strictly ascending string order
Ascending(s) == \A i, j \in DOMAIN s : i < j => StrLess(s[i], s[j])

\* C17: with all static inputs present the batch never aborts: the
\* workbooks are attempted once each in sorted order, one after another
\* whatever fails (while some are left the loop is not over), and the
\* generated list (and the index written from it) is exactly the attempted
\* workbooks that did not fail, in that order
C17_BatchIsolation ==
    (mpc \in {"loop", "done", "aborted"} /\ static_files = StaticInputs) =>
        LET Made(x) == ~Fails(BookOf(x))
        IN /\ mpc # "aborted"
           /\ Ascending(excel_files)
           /\ {excel_files[i] : i \in DOMAIN excel_files} =
                  DOMAIN excel_folder
           /\ Len(attempts) <= Len(excel_files)
           /\ attempts = SubSeq(excel_files, 1, Len(attempts))
           /\ generated = SelectSeq(attempts, Made)
           /\ saved = {generated[i] : i \in DOMAIN generated}
           /\ mpc = "done" =>
                 /\ attempts = excel_files
                 /\ index_items = generated

\* C17 witness: three workbooks, the second fails, the first and the third
\* are generated
C17_Witness ==
    /\ mpc = "done"
    /\ Len(excel_files) = 3
    /\ ~Fails(BookOf(excel_files[1]))
    /\ Fails(BookOf(excel_files[2]))
    /\ ~Fails(BookOf(excel_files[3]))
    /\ generated = <<excel_files[1], excel_files[3]>>
    /\ errors = <<excel_files[2]>>

\* C18: in a run where a static input is missing, no workbook is processed
\* and no page or map is written
C18_MissingInputAborts ==
    /\ (spc # "idle" /\ ~catalog_exists) =>
           /\ pages = {}
           /\ items = NoItems
    /\ (mpc # "idle" /\ static_files # StaticInputs) =>
           /\ mpc \in {"start", "aborted"}
           /\ attempts = <<>>
           /\ saved = {}
           /\ index_items = <<>>

\* the workbook that was mapped last, when the last attempt did not fail
LastMapped == attempts[Len(attempts)]

\* C19: when the code of the workbook mapped last normalises to absent, the
\* map is made all the same: no boundary source was queried, the boundary
\* is empty, no incident is drawn, and the markers of the rows of the
\* workbook are drawn
C19_AbsentCodeDegrades ==
    (/\ attempts # <<>>
     /\ ~Fails(BookOf(LastMapped))
     /\ target_ubi = None) =>
        LET rows == Located(BookOf(LastMapped))
        IN /\ mpc # "aborted"
           /\ generated # <<>>
           /\ generated[Len(generated)] = LastMapped
           /\ LastMapped \in saved
           /\ consulted = {}
           /\ feats = <<>>
           /\ kept = <<>>
           /\ row = 0
           /\ puntos = [i \in DOMAIN rows |->
                           <<rows[i].longitud[1], rows[i].latitud[1]>>]
           /\ puntos # <<>>

\* C19 witness: a workbook without the code column and one whose code cell
\* has no digit were both mapped, the second last, in a run whose incident
\* pool is not empty
C19_Witness ==
    /\ Len(generated) >= 2
    /\ generated[Len(generated)] = LastMapped
    /\ H_ubigeo_gestor \in Columns(BookOf(LastMapped).headers)
    /\ ubigeo_gestor # None
    /\ target_ubi = None
    /\ H_ubigeo_gestor \notin Columns(BookOf(generated[1]).headers)
    /\ siniestros_df # <<>>
    /\ Len(puntos) = 2

(***************************************************************************)
(* Claims on what a run loads once (SpecSite, SpecBatch)                   *)
(***************************************************************************)

\* C21: the catalogue indexes are built at most once in a run and before
\* the first workbook is listed; the boundary collections and the incident
\* pool are those loaded before the loop, whatever was processed since
C21_LoadedOnce ==
    /\ index_builds <= 1
    /\ mpc \in {"loop", "done"} =>
          /\ distritos_gj = BatchDistritos
          /\ provincias_gj_list = BatchProvincias
          /\ siniestros_df = BatchSiniestros

(***************************************************************************)
(* Claim on ring closure (SpecIdprov, SpecGeo)                             *)
(***************************************************************************)

\* C22: a ring is cyclic whether or not it is closed: the incident tested
\* against a boundary of one ring was drawn iff _point_in_ring holds for the
\* same ring with its first vertex repeated as an additional last vertex
C22_CyclicRing ==
    (SingleRing /\ row > 0) =>
        LET ring == feats[1].geometry.coordinates[1]
            pt == siniestros_df[row]
        IN ring # <<>> =>
              (Kept(pt) <=>
                  point_in_ring(pt[1], pt[2], ring \o <<ring[1]>>, edge_tie))

\* C22 witness: an incident was kept by a ring that is not closed and whose
\* closing edge, from the last vertex to the first, is crossed by its ray
C22_Witness ==
    /\ SingleRing
    /\ row > 0
    /\ LET ring == feats[1].geometry.coordinates[1]
           pt == siniestros_df[row]
       IN /\ Len(ring) >= 3
          /\ ring[Len(ring)] # ring[1]
          /\ EdgeCrosses(pt[1], pt[2], ring[Len(ring)], ring[1], edge_tie)
          /\ Kept(pt)

(***************************************************************************)
(* Claim on the combined GeoJSON of mix_ubigeo_geojson (Spec)              *)
(***************************************************************************)

\* the codes of a list of entries
CodesOf(entries) == {entries[i].ubigeo : i \in DOMAIN entries}

\* C23: the features written are for catalogue codes only, in strictly
\* ascending code order (so one per code at most); a feature comes from the
\* merged province index, with source "provincias", iff its code ends in
\* "01", and from the district index, with source "distritos", otherwise;
\* every catalogue code is either written or skipped, never both
C23_CombinedOutput ==
    bpc = "mixed" =>
        /\ CodesOf(mix_features) \subseteq catalogo
        /\ \A i, j \in DOMAIN mix_features :
              i < j => StrLess(mix_features[i].ubigeo, mix_features[j].ubigeo)
        /\ \A i \in DOMAIN mix_features :
              LET e == mix_features[i]
              IN IF EndsWith(e.ubigeo, <<"0", "1">>)
                 THEN /\ e.source = "provincias"
                      /\ e.ubigeo \in DOMAIN idx_prov
                      /\ e.feat = idx_prov[e.ubigeo]
                 ELSE /\ e.source = "distritos"
                      /\ e.ubigeo \in DOMAIN idx_dist
                      /\ e.feat = idx_dist[e.ubigeo]
        /\ CodesOf(mix_features) \cup CodesOf(skipped) = catalogo
        /\ CodesOf(mix_features) \cap CodesOf(skipped) = {}

\* C23 witness: of the catalogue "060101", "060102" the province was
\* written from the province index and the district from the district index
C23_Witness ==
    /\ bpc = "mixed"
    /\ catalogo = {C060101, C060102}
    /\ Len(mix_features) = 2
    /\ mix_features[1].ubigeo = C060101
    /\ mix_features[1].source = "provincias"
    /\ mix_features[2].ubigeo = C060102
    /\ mix_features[2].source = "distritos"
    /\ skipped = <<>>

(***************************************************************************)
(* Claims on the marker search (SpecSearch)                                *)
(***************************************************************************)

\* C24: after a search of the health-facility map a marker is highlighted
\* iff its name text contains the non-empty name query or its code text
\* contains the non-empty code query, case-insensitively (so a search with
\* one field filled highlights only the matches of that field), and after
\* 'Limpiar' no marker is highlighted.
C24_SearchHighlights ==
    LET qn == Strip(Lower(q_name))
        qc == Strip(Lower(q_code))
        Hit(mk) ==
            \/ qn # <<>> /\ Contains(Lower(mk.name), qn)
            \/ qc # <<>> /\ Contains(Lower(mk.code), qc)
    IN /\ upc = "searched" =>
             highlighted["maps_establecimientos"] =
                 {i \in DOMAIN markers : Hit(markers[i])}
       /\ upc = "cleared" =>
             highlighted["maps_establecimientos"] = {}

(***************************************************************************)
(* Claims that compare two implementations                                 *)
(***************************************************************************)

\* C27: the two province lookups agree: for the province files of a run and
\* every governing code that ends in "01", the list returned by
\* features_provincia_por_ubigeo holds exactly the one entry that
\* merge_indexes retains for the code in the province index of
\* mix_ubigeo_geojson, or the list is empty and the index has no entry.
C27_ProvinceLookupsAgree ==
    bpc = "mixed" =>
        \A u6 \in {to_ubigeo6(cell) : cell \in GestorCells} \ {None} :
            EndsWith(u6, <<"0", "1">>) =>
                LET fp == features_provincia_por_ubigeo(provincias_gj_list,
                                                        u6)
                IN IF u6 \in DOMAIN idx_prov
                   THEN fp = <<idx_prov[u6]>>
                   ELSE fp = <<>>

(***************************************************************************)
(* Claims on the distance tool (SpecMeasure)                               *)
(***************************************************************************)

\* C30: after any sequence of toggle, map-click and marker-drag events:
\* while measuring is off no measurement marker or line exists (so clicks
\* made while off create none, and switching off removes A, B and the
\* line); marker B exists only if marker A exists; the line exists iff both
\* markers exist and then joins their current positions; the first click
\* places A, the second places B, and a third or later click leaves one A
\* and one B on the map.
C30_MeasureTool ==
    /\ ~measuring =>
          /\ mA = null /\ mB = null /\ mLine = NoLine
          /\ map_layers = NoLayers
    /\ mB # null => mA # null
    /\ mLine # NoLine <=> (mA # null /\ mB # null)
    /\ mLine # NoLine => mLine.latlngs = <<mA, mB>>
    /\ map_layers = [title \in LayerTitles |->
                        CASE title = "Punto A" -> IF mA # null THEN 1 ELSE 0
                          [] title = "Punto B" -> IF mB # null THEN 1 ELSE 0
                          [] OTHER -> IF mLine # NoLine THEN 1 ELSE 0]
    /\ mA # null <=> clicks >= 1
    /\ mB # null <=> clicks >= 2

\* a third click was handled and a marker was moved away from the other
C30_Witness ==
    /\ measuring
    /\ clicks = 3
    /\ mA # mB
    /\ mLine.latlngs = <<mA, mB>>
    /\ map_layers["Punto B"] = 1

\* C28: to_bool of process_colegios and to_bool_soft of maps_from_excels
\* return the same boolean for every raw value of a flag cell.
C28_SameBoolean ==
    fpc = "coerced" => flag_ingest = flag_map

(***************************************************************************)
(* Claims on the splitting scripts (SpecSplit)                             *)
(***************************************************************************)

\* the governing code of row i of the ingested table in a splitting script
GestorOfRow(script, i) ==
    IF script = "split_excels_por_muni"
    THEN compute_gestor_colegios(input_table[i].ubigeo,
                                 input_table[i].competencia)
    ELSE compute_gestor(input_table[i].ubigeo, input_table[i].competencia)

\* C25: in each of the three splitting scripts the rows whose governing
\* code is absent are left out of every workbook, and no workbook or
\* catalogue row is produced for an absent code: every catalogue row
\* carries the governing code of some row of the table.
C25_AbsentLeftOut ==
    \A script \in split_done :
        LET absent == {i \in DOMAIN input_table :
                          GestorOfRow(script, i) = None}
            present == {GestorOfRow(script, i) : i \in DOMAIN input_table}
                           \ {None}
        IN /\ \A path \in DOMAIN exports[script].files :
                 exports[script].files[path] \cap absent = {}
           /\ \A c \in exports[script].catalog : c.ubigeo_gestor \in present

\* C29: in one run of a splitting script distinct governing codes are
\* written to distinct workbook paths, and every row with a governing code
\* is, at the end of the run, in exactly one workbook.
C29_DistinctPaths ==
    \A script \in split_done :
        /\ \A c1 \in exports[script].catalog :
           \A c2 \in exports[script].catalog :
               c1.ubigeo_gestor # c2.ubigeo_gestor => c1.path # c2.path
        /\ \A i \in DOMAIN input_table :
               GestorOfRow(script, i) # None =>
                   Cardinality({path \in DOMAIN exports[script].files :
                                   i \in exports[script].files[path]}) = 1

\* C26: round trip through the file name: for every catalogue entry with a
\* slug whose workbook a *_to_excels script wrote, build_site resolves the
\* workbook name back to the code of the entry.
C26_RoundTrip ==
    xpc = "scanned" =>
        \A script \in SplitScripts :
        \A k \in DOMAIN muni_catalog :
        \A c \in exports[script].catalog :
            (muni_catalog[k].slug # <<>>
                /\ c.ubigeo_gestor = muni_catalog[k].ubigeo) =>
                \A item \in scanned[script] :
                    item.name = c.slug =>
                        item.data_ubi = muni_catalog[k].ubigeo

====
